---- MODULE Spec2Model ----
(***************************************************************************)
(* Model of the levelling subsystem of src/cogs/Levelling.py: the curve    *)
(* maths, the five SQLite tables behind the process-wide _db_lock, the     *)
(* on_message XP pipeline, add_xp_and_check_level_up and the               *)
(* administrative /levelconfig commands.                                   *)
(*                                                                         *)
(* Granularity: every `async with _db_lock:` block is one atomic step of   *)
(* the coroutine that runs it, together with the lock-free code that       *)
(* follows it up to the coroutine's next await.  Calls to Discord          *)
(* (member.add_roles, channel.send) are steps whose outcome is chosen      *)
(* nondeterministically.  Spec schedules the handlers as the event loop    *)
(* does, with a switch only at a call to Discord; SpecApply and SpecNotify *)
(* allow a switch at every acquisition of _db_lock as well.                *)
(***************************************************************************)
EXTENDS Integers, Sequences, FiniteSets, TLC

\* ------------------------------------------------------------------ bounds
\* Number of coroutine slots (each slot runs one handler invocation).
NumTasks == 2
\* The clock reads 0..MaxClock.
MaxClock == 4
\* A leaderboard session shows the pages 0..MaxPage.
MaxPage == 2

Tasks == 1..NumTasks

\* ------------------------------------------------------------ identifiers
Guilds == {"g1"}
Users == {1}
TextChannel == "c1"
IgnoredChannel == "c2"
ThreadChannel == "th1"
RoleA == "ra"
RoleB == "rb"
RoleGone == "rx"
RoleBlack == "rk"

\* --------------------------------------------------------------- helpers
Max(a, b) == IF a >= b THEN a ELSE b

RECURSIVE Pow(_, _)
Pow(b, e) == IF e = 0 THEN 1 ELSE b * Pow(b, e - 1)

\* Python's round() on the non-negative rational n/d: nearest integer, a tie
\* goes to the even neighbour.
PyRound(n, d) ==
    LET q == n \div d
        r == n % d
    IN  IF 2 * r < d THEN q
        ELSE IF 2 * r > d THEN q + 1
        ELSE IF q % 2 = 0 THEN q ELSE q + 1

\* ------------------------------------------------------------ curve maths
\* The doubling search stops once hi exceeds this value.
HiCap == 10000

\* A variant whose linear curve leaves out the parameter a.
xp_required_linear_without_a(curve, base_xp, a, b, level) ==
    LET lv == Max(0, level)
    IN  IF lv = 0 THEN 0
        ELSE IF curve = "linear" THEN Max(0, base_xp * lv)
        ELSE IF curve = "exponential"
             THEN PyRound(Max(0, base_xp * (Pow(23, lv) - Pow(20, lv))), Pow(20, lv))
        ELSE Max(0, base_xp * (lv * lv) + a * lv + b)

\* A REAL column is kept as the pair <<numerator, denominator>>; 1.15 is 23/20.
xp_required_for_level(curve, base_xp, a, b, level) ==
    LET lv == Max(0, level)
    IN  IF lv = 0 THEN 0
        ELSE IF curve = "linear" THEN Max(0, (base_xp + a) * lv)
        ELSE IF curve = "exponential"
             THEN PyRound(Max(0, base_xp * (Pow(23, lv) - Pow(20, lv))), Pow(20, lv))
        ELSE Max(0, base_xp * (lv * lv) + a * lv + b)

RECURSIVE Ramp(_, _, _, _, _, _)
Ramp(curve, base_xp, a, b, total_xp, hi) ==
    IF xp_required_for_level(curve, base_xp, a, b, hi) <= total_xp
    THEN IF 2 * hi > HiCap THEN 2 * hi
         ELSE Ramp(curve, base_xp, a, b, total_xp, 2 * hi)
    ELSE hi

\* A variant of the binary search with the comparison turned round.
RECURSIVE BinSearchInverted(_, _, _, _, _, _, _)
BinSearchInverted(curve, base_xp, a, b, total_xp, lo, hi) ==
    IF lo < hi
    THEN LET mid == (lo + hi + 1) \div 2
         IN  IF xp_required_for_level(curve, base_xp, a, b, mid) >= total_xp
             THEN BinSearchInverted(curve, base_xp, a, b, total_xp, mid, hi)
             ELSE BinSearchInverted(curve, base_xp, a, b, total_xp, lo, mid - 1)
    ELSE lo

RECURSIVE BinSearch(_, _, _, _, _, _, _)
BinSearch(curve, base_xp, a, b, total_xp, lo, hi) ==
    IF lo < hi
    THEN LET mid == (lo + hi + 1) \div 2
         IN  IF xp_required_for_level(curve, base_xp, a, b, mid) <= total_xp
             THEN BinSearch(curve, base_xp, a, b, total_xp, mid, hi)
             ELSE BinSearch(curve, base_xp, a, b, total_xp, lo, mid - 1)
    ELSE lo

level_from_total_xp(curve, base_xp, a, b, total_xp) ==
    LET total == Max(0, total_xp)
    IN  BinSearch(curve, base_xp, a, b, total, 0,
                  Ramp(curve, base_xp, a, b, total, 1))

xp_between_levels(curve, base_xp, a, b, level) ==
    Max(1, xp_required_for_level(curve, base_xp, a, b, level + 1)
           - xp_required_for_level(curve, base_xp, a, b, level))

\* --------------------------------------------------------------- settings
NoChannel == "none"

DEFAULT_SETTINGS ==
    [ xp_min |-> 10, xp_max |-> 20, cooldown_seconds |-> 60,
      multiplier |-> <<1, 1>>, min_chars |-> 5,
      attachments_bonus |-> 5, mentions_bonus |-> 2,
      threads_multiplier |-> <<1, 1>>, ignore_bots |-> 1,
      curve_type |-> "quadratic", base_xp |-> 100, curve_a |-> 50, curve_b |-> 0,
      announce_level_up |-> 1, announce_channel_id |-> NoChannel ]

\* UPDATE ... SET k = v for the keys of fields, the other columns kept.
MergeFields(row, fields) ==
    [k \in DOMAIN row |-> IF k \in DOMAIN fields THEN fields[k] ELSE row[k]]

\* INSERT (or replace) the row at key in a table kept as a function.
Upsert(table, key, row) ==
    [k \in (DOMAIN table) \cup {key} |-> IF k = key THEN row ELSE table[k]]

\* DELETE the rows whose keys are in gone.
DeleteRows(table, gone) ==
    [k \in (DOMAIN table) \ gone |-> table[k]]

EmptyTable == [k \in {} |-> 0]


\* ------------------------------------------------------------------ state
VARIABLES
    guild_settings,     \* table guild_settings: guild_id -> row
    user_xp,            \* table user_xp: <<guild_id, user_id>> -> row
    role_rewards,       \* table role_rewards: <<guild_id, level>> -> role_id
    ignored_channels,   \* table ignored_channels: set of <<guild_id, channel_id>>
    blacklisted_roles,  \* table blacklisted_roles: set of <<guild_id, role_id>>
    guild_roles,        \* Discord: the role ids guild.get_role resolves
    member_roles,       \* Discord: user_id -> the role ids in member.roles
    clock,              \* datetime.utcnow() in seconds
    tasks,              \* the running handler invocations
    requested,          \* history: <<guild, user>> -> sum of the gains handed to add_xp_and_check_level_up
    xp_start,           \* history: <<guild, user>> -> xp stored in the initial state
    anchor,             \* history: <<guild, user>> -> now_ts of the last event past the cooldown check, -1 if none
    overlapped,         \* history: a handler started, or a member left, while another handler was running
    expected_settings,  \* history: guild_id -> what get_settings must return after the last update_settings
    last_cmd            \* history: the last settings command, its input and the row it found

tables == <<guild_settings, user_xp, role_rewards, ignored_channels, blacklisted_roles>>

discord == <<guild_roles, member_roles>>

history == <<requested, xp_start, anchor, overlapped, expected_settings, last_cmd>>

vars == <<tables, discord, clock, tasks, history>>

\* ------------------------------------------------------- database helpers
\* get_settings: the row, inserted with the defaults when missing.
SettingsAfterGet(gs, g) ==
    IF g \in DOMAIN gs THEN gs ELSE Upsert(gs, g, DEFAULT_SETTINGS)

get_settings(gs, g) == SettingsAfterGet(gs, g)[g]

\* update_settings: UPDATE guild_settings SET ... WHERE guild_id = g.
update_settings(gs, g, fields) ==
    IF g \in DOMAIN gs THEN [gs EXCEPT ![g] = MergeFields(@, fields)] ELSE gs

NewUserRow == [xp |-> 0, level |-> 0, last_message_ts |-> 0]

\* get_user_record: the row, inserted as (0, 0, 0) when missing.
get_user_record(ux, g, u) ==
    IF <<g, u>> \in DOMAIN ux THEN ux ELSE Upsert(ux, <<g, u>>, NewUserRow)

get_last_message_ts(ux, g, u) ==
    IF <<g, u>> \in DOMAIN ux THEN ux[<<g, u>>].last_message_ts ELSE 0

\* set_last_message_ts: an UPDATE, which touches no row when none matches.
set_last_message_ts(ux, g, u, ts) ==
    IF <<g, u>> \in DOMAIN ux
    THEN [ux EXCEPT ![<<g, u>>].last_message_ts = ts]
    ELSE ux

\* A variant that finds no channel ignored.
is_channel_ignored_never(ic, g, ch) == FALSE

is_channel_ignored(ic, g, ch) == <<g, ch>> \in ic

list_blacklisted_roles(br, g) == {r \in {p[2] : p \in br} : <<g, r>> \in br}

\* SELECT level, role_id ... WHERE level BETWEEN lo AND hi ORDER BY level ASC
RECURSIVE SortedByLevel(_, _)
SortedByLevel(rr, keys) ==
    IF keys = {} THEN <<>>
    ELSE LET k == CHOOSE x \in keys : \A y \in keys : x[2] <= y[2]
         IN  <<(<<k[2], rr[k]>>)>> \o SortedByLevel(rr, keys \ {k})

RewardRows(rr, g, lo, hi) ==
    SortedByLevel(rr, {k \in DOMAIN rr : k[1] = g /\ lo <= k[2] /\ k[2] <= hi})

\* ------------------------------------------------------------------ tasks
NoEvent ==
    [has_guild |-> TRUE, bot |-> FALSE, channel |-> TextChannel,
     len |-> 0, att |-> 0, men |-> 0]

IdleTask ==
    [ op |-> "idle", pc |-> "idle", g |-> "g1", u |-> 1, ev |-> NoEvent,
      settings |-> DEFAULT_SETTINGS, now_ts |-> 0, gain |-> 0,
      curve |-> DEFAULT_SETTINGS, cur_level |-> 0, new_total |-> 0,
      new_level |-> 0, level_value |-> 0, rows |-> <<>>, idx |-> 0,
      awarded |-> <<>>, page |-> 0, rank |-> 0,
      members |-> {}, todo |-> {}, others |-> {}, snap |-> EmptyTable,
      changed |-> 0, awarded_total |-> 0, holds |-> FALSE, batch |-> {},
      \* history fields
      log |-> <<>>, verdict |-> "none", seen_anchor |-> -1, applied |-> FALSE,
      notify |-> "none", before |-> EmptyTable, scans |-> <<>> ]

Running(t) == tasks[t].pc \notin {"idle", "done"}

\* The handler returns: its locals go away, the history fields stay.
Finish(rec) ==
    [rec EXCEPT !.pc = "done", !.ev = NoEvent, !.settings = DEFAULT_SETTINGS,
                !.curve = DEFAULT_SETTINGS, !.idx = 0, !.members = {},
                !.todo = {}, !.others = {}, !.snap = EmptyTable]

\* A new invocation takes the lowest free slot.
FreeSlot(t) ==
    /\ tasks[t].pc = "idle"
    /\ \A o \in Tasks : o < t => tasks[o].pc # "idle"

StartHistory(t) ==
    overlapped' = (overlapped \/ \E o \in Tasks \ {t} : Running(o))


\* ---------------------------------------------------------------- on_message
\* Lines 693-700: the handler up to its first await.
MsgStart(t, g, u, ev) ==
    /\ FreeSlot(t)
    /\ tasks' = [tasks EXCEPT ![t] =
         IF ~ev.has_guild
         THEN Finish([IdleTask EXCEPT !.op = "msg", !.g = g, !.u = u,
                                      !.verdict = "filtered"])
         ELSE [IdleTask EXCEPT !.op = "msg", !.g = g, !.u = u, !.ev = ev,
                               !.pc = IF ev.bot THEN "bot_settings" ELSE "settings"]]
    /\ StartHistory(t)
    /\ UNCHANGED <<tables, discord, clock, requested, xp_start, anchor,
                   expected_settings, last_cmd>>

\* Lines 695-698: a bot author; get_settings and the ignore_bots test.
MsgBotSettings(t) ==
    LET me == tasks[t]
        s == get_settings(guild_settings, me.g)
    IN  /\ me.pc = "bot_settings"
        /\ guild_settings' = SettingsAfterGet(guild_settings, me.g)
        /\ tasks' = [tasks EXCEPT ![t] =
             IF s.ignore_bots = 1
             THEN Finish([me EXCEPT !.verdict = "filtered"])
             ELSE [me EXCEPT !.pc = "settings"]]
        /\ UNCHANGED <<user_xp, role_rewards, ignored_channels, blacklisted_roles,
                       discord, clock, history>>

\* Line 700: settings = await get_settings(...)
MsgSettings(t) ==
    LET me == tasks[t]
    IN  /\ me.pc = "settings"
        /\ guild_settings' = SettingsAfterGet(guild_settings, me.g)
        /\ tasks' = [tasks EXCEPT ![t] =
             [me EXCEPT !.settings = get_settings(guild_settings, me.g),
                        !.pc = "ignored"]]
        /\ UNCHANGED <<user_xp, role_rewards, ignored_channels, blacklisted_roles,
                       discord, clock, history>>

\* Lines 703-704: the ignored-channel test.
MsgChannelIgnored(t) ==
    LET me == tasks[t]
    IN  /\ me.pc = "ignored"
        /\ tasks' = [tasks EXCEPT ![t] =
             IF is_channel_ignored(ignored_channels, me.g, me.ev.channel)
             THEN Finish([me EXCEPT !.verdict = "filtered"])
             ELSE [me EXCEPT !.pc = "blacklist"]]
        /\ UNCHANGED <<tables, discord, clock, history>>

\* Lines 707-719: the blacklisted-role test, the min_chars test, the clock read.
MsgBlacklist(t) ==
    LET me == tasks[t]
        bl_roles == list_blacklisted_roles(blacklisted_roles, me.g)
    IN  /\ me.pc = "blacklist"
        /\ tasks' = [tasks EXCEPT ![t] =
             IF member_roles[me.u] \cap bl_roles # {}
             THEN Finish([me EXCEPT !.verdict = "filtered"])
             ELSE IF me.ev.len < me.settings.min_chars
             THEN Finish([me EXCEPT !.verdict = "filtered"])
             ELSE [me EXCEPT !.now_ts = clock, !.pc = "cooldown"]]
        /\ UNCHANGED <<tables, discord, clock, history>>

\* random.randint(xp_min, xp_max): the draws the model takes are the two ends.
RandDraws(xp_min, xp_max) ==
    IF xp_min > xp_max THEN {} ELSE {xp_min, xp_max}

\* Lines 731-743: the gain of a message for the base gain drawn.
ComputeGain(settings, ev, base_gain) ==
    LET raw == base_gain + settings.attachments_bonus * ev.att
                         + settings.mentions_bonus * ev.men
        tm == settings.threads_multiplier
        m == settings.multiplier
        threaded == IF ev.channel = ThreadChannel
                    THEN PyRound(raw * tm[1], tm[2]) ELSE raw
    IN  Max(0, PyRound(threaded * m[1], m[2]))

\* Lines 720-743: get_last_message_ts, the cooldown test, the gain.
MsgCooldown(t) ==
    LET me == tasks[t]
        last_ts == get_last_message_ts(user_xp, me.g, me.u)
        s == me.settings
        key == <<me.g, me.u>>
    IN  /\ me.pc = "cooldown"
        /\ IF me.now_ts - last_ts < s.cooldown_seconds
           THEN /\ tasks' = [tasks EXCEPT ![t] =
                      Finish([me EXCEPT !.verdict = "cooldown",
                                        !.seen_anchor = anchor[key]])]
                /\ UNCHANGED anchor
           ELSE IF RandDraws(s.xp_min, s.xp_max) = {}
           THEN \* random.randint raises ValueError: the handler logs and returns
                /\ tasks' = [tasks EXCEPT ![t] =
                      Finish([me EXCEPT !.verdict = "error"])]
                /\ UNCHANGED anchor
           ELSE \E base_gain \in RandDraws(s.xp_min, s.xp_max) :
                /\ tasks' = [tasks EXCEPT ![t] =
                      [me EXCEPT !.gain = ComputeGain(s, me.ev, base_gain),
                                 !.verdict = "accepted",
                                 !.seen_anchor = anchor[key],
                                 !.pc = "set_ts"]]
                /\ anchor' = [anchor EXCEPT ![key] = me.now_ts]
        /\ UNCHANGED <<tables, discord, clock, requested, xp_start, overlapped,
                       expected_settings, last_cmd>>

\* A variant without the gain <= 0 return.
MsgSetTsAppliesZero(t) ==
    LET me == tasks[t]
        key == <<me.g, me.u>>
    IN  /\ me.pc = "set_ts"
        /\ user_xp' = set_last_message_ts(user_xp, me.g, me.u, me.now_ts)
        /\ tasks' = [tasks EXCEPT ![t] = [me EXCEPT !.pc = "ax_settings"]]
        /\ requested' = [requested EXCEPT ![key] = @ + me.gain]
        /\ UNCHANGED <<guild_settings, role_rewards, ignored_channels,
                       blacklisted_roles, discord, clock, xp_start, anchor,
                       overlapped, expected_settings, last_cmd>>

\* Lines 746-754: set_last_message_ts, the gain <= 0 return, the call of
\* add_xp_and_check_level_up.
MsgSetTs(t) ==
    LET me == tasks[t]
        key == <<me.g, me.u>>
    IN  /\ me.pc = "set_ts"
        /\ user_xp' = set_last_message_ts(user_xp, me.g, me.u, me.now_ts)
        /\ IF me.gain <= 0
           THEN /\ tasks' = [tasks EXCEPT ![t] = Finish(me)]
                /\ UNCHANGED requested
           ELSE /\ tasks' = [tasks EXCEPT ![t] = [me EXCEPT !.pc = "ax_settings"]]
                /\ requested' = [requested EXCEPT ![key] = @ + me.gain]
        /\ UNCHANGED <<guild_settings, role_rewards, ignored_channels,
                       blacklisted_roles, discord, clock, xp_start, anchor,
                       overlapped, expected_settings, last_cmd>>


\* -------------------------------------------------- add_xp_and_check_level_up
\* Lines 290-294: settings = await get_settings(guild.id)
AxSettings(t) ==
    LET me == tasks[t]
    IN  /\ me.pc = "ax_settings"
        /\ guild_settings' = SettingsAfterGet(guild_settings, me.g)
        /\ tasks' = [tasks EXCEPT ![t] =
             [me EXCEPT !.curve = get_settings(guild_settings, me.g),
                        !.pc = "ax_apply"]]
        /\ UNCHANGED <<user_xp, role_rewards, ignored_channels, blacklisted_roles,
                       discord, clock, history>>

\* Line 311, a lost-update variant: the stored total is not read.
NewTotalForgetsStored(current_xp, gained_xp) == Max(0, gained_xp)

\* Line 311 without the max.
NewTotalUnclamped(current_xp, gained_xp) == current_xp + gained_xp

\* Line 311: new_total = max(0, current_xp + int(gained_xp))
NewTotal(current_xp, gained_xp) == Max(0, current_xp + gained_xp)

\* Lines 297-309: the row read inside the critical section, (0, 0) when missing.
CurrentXp(ux, g, u) == IF <<g, u>> \in DOMAIN ux THEN ux[<<g, u>>].xp ELSE 0

CurrentLevel(ux, g, u) == IF <<g, u>> \in DOMAIN ux THEN ux[<<g, u>>].level ELSE 0

\* Lines 312-318: the row written back by the critical section.
AppliedRow(ux, g, u, s, gained_xp) ==
    LET new_total == NewTotal(CurrentXp(ux, g, u), gained_xp)
    IN  [ xp |-> new_total,
          level |-> level_from_total_xp(s.curve_type, s.base_xp, s.curve_a,
                                        s.curve_b, new_total),
          last_message_ts |-> get_last_message_ts(ux, g, u) ]

\* Lines 330-334: rows whose role is gone or already held are passed over with
\* no await; the result is the index of the next row that gets add_roles.
RECURSIVE ScanTo(_, _, _, _, _)
ScanTo(rows, i, held, groles, log) ==
    IF i > Len(rows) THEN [idx |-> i, log |-> log]
    ELSE IF rows[i][2] \notin groles
         THEN ScanTo(rows, i + 1, held, groles, Append(log, <<rows[i][1], "norole">>))
    ELSE IF rows[i][2] \in held
         THEN ScanTo(rows, i + 1, held, groles, Append(log, <<rows[i][1], "held">>))
    ELSE [idx |-> i, log |-> log]

\* A variant in which a failed grant ends the loop.
ResumeScanAborting(rows, i, held, groles, log, outcome) ==
    IF outcome = "granted" THEN ScanTo(rows, i + 1, held, groles, log)
    ELSE [idx |-> Len(rows) + 1, log |-> log]

\* Lines 333-346: both except clauses fall through to the next row.
ResumeScan(rows, i, held, groles, log, outcome) ==
    ScanTo(rows, i + 1, held, groles, log)

\* A variant that includes the level the member already had.
RewardQueryFromOld(rr, g, current_level, new_level) ==
    RewardRows(rr, g, current_level, new_level)

\* Lines 324-327: the rewards of the levels current_level+1 .. new_level.
RewardQuery(rr, g, current_level, new_level) ==
    RewardRows(rr, g, current_level + 1, new_level)

\* A variant in which a failed grant undoes the XP update.
GrantFailureRollsBack(ux, me) ==
    [ux EXCEPT ![<<me.g, me.u>>].xp = Max(0, @ - me.gain),
               ![<<me.g, me.u>>].level = me.cur_level]

\* Lines 339-346: a failed grant is written to the audit log; user_xp is not touched.
GrantFailure(ux, me) == ux

\* Line 348 and the caller's code that follows the call up to its next await:
\* on_message lines 756-807, cfg_addxp lines 1449-1461, cfg_recalc lines
\* 1662-1664 (the counters, then the next row of the loop).
AfterAddXp(rec) ==
    IF rec.op = "msg"
    THEN IF (rec.awarded # <<>> \/ rec.new_level > 0)
            /\ rec.settings.announce_level_up = 1
         THEN [rec EXCEPT !.pc = "announce"]
         ELSE Finish(rec)
    ELSE IF rec.op = "recalc"
    THEN [rec EXCEPT !.pc = "rc_member",
                     !.changed = IF rec.new_level # rec.snap[rec.u].level
                                 THEN @ + 1 ELSE @,
                     !.awarded_total = @ + Len(rec.awarded),
                     !.scans = Append(@, [u |-> rec.u, member |-> rec.u \in rec.members,
                                          old |-> rec.cur_level,
                                          new |-> rec.new_level, log |-> rec.log])]
    ELSE Finish(rec)

\* Lines 296-321: the read-modify-write critical section.
AxApply(t) ==
    LET me == tasks[t]
        key == <<me.g, me.u>>
        row == AppliedRow(user_xp, me.g, me.u, me.curve, me.gain)
        current_level == CurrentLevel(user_xp, me.g, me.u)
        after == [me EXCEPT !.cur_level = current_level,
                            !.new_total = row.xp,
                            !.new_level = row.level,
                            !.applied = TRUE]
    IN  /\ me.pc = "ax_apply"
        /\ user_xp' = Upsert(user_xp, key, row)
        /\ tasks' = [tasks EXCEPT ![t] =
             IF row.level > current_level
             THEN [after EXCEPT !.pc = "ax_rewards"]
             ELSE AfterAddXp(after)]
        /\ UNCHANGED <<guild_settings, role_rewards, ignored_channels,
                       blacklisted_roles, discord, clock, history>>

\* Lines 323-334: the reward rows are read, then passed over up to the first
\* one that needs member.add_roles.
AxRewards(t) ==
    LET me == tasks[t]
        rows == RewardQuery(role_rewards, me.g, me.cur_level, me.new_level)
        nxt == ScanTo(rows, 1, member_roles[me.u], guild_roles, <<>>)
        after == [me EXCEPT !.rows = rows, !.idx = nxt.idx, !.log = nxt.log]
    IN  /\ me.pc = "ax_rewards"
        /\ tasks' = [tasks EXCEPT ![t] =
             IF nxt.idx > Len(rows) THEN AfterAddXp(after)
             ELSE [after EXCEPT !.pc = "ax_grant"]]
        /\ UNCHANGED <<tables, discord, clock, history>>

GrantOutcomes == {"granted", "forbidden", "http_error"}

\* History: discord.Forbidden and discord.HTTPException are handled alike.
LogTag(outcome) == IF outcome = "granted" THEN "granted" ELSE "failed"

\* Lines 335-346: member.add_roles returns or raises; the loop goes on.
AxGrant(t, outcome) ==
    LET me == tasks[t]
        level_at == me.rows[me.idx][1]
        role_id == me.rows[me.idx][2]
        held == IF outcome = "granted"
                THEN member_roles[me.u] \cup {role_id} ELSE member_roles[me.u]
        nxt == ResumeScan(me.rows, me.idx, held, guild_roles,
                          Append(me.log, <<level_at, LogTag(outcome)>>), outcome)
        after == [me EXCEPT !.idx = nxt.idx, !.log = nxt.log,
                            !.awarded = IF outcome = "granted"
                                        THEN Append(@, <<level_at, role_id>>) ELSE @]
    IN  /\ me.pc = "ax_grant"
        /\ member_roles' = [member_roles EXCEPT ![me.u] = held]
        /\ user_xp' = IF outcome = "granted" THEN user_xp ELSE GrantFailure(user_xp, me)
        /\ tasks' = [tasks EXCEPT ![t] =
             IF nxt.idx > Len(me.rows) THEN AfterAddXp(after)
             ELSE [after EXCEPT !.pc = "ax_grant"]]
        /\ UNCHANGED <<guild_settings, role_rewards, ignored_channels,
                       blacklisted_roles, guild_roles, clock, history>>

SendOutcomes == {"sent", "forbidden", "error"}

\* Lines 807-818: announce_channel.send returns or raises; either way the
\* handler writes its audit line and returns.
MsgAnnounce(t, outcome) ==
    LET me == tasks[t]
    IN  /\ me.pc = "announce"
        /\ outcome \in SendOutcomes
        /\ tasks' = [tasks EXCEPT ![t] =
             Finish([me EXCEPT !.notify = IF outcome = "sent" THEN "sent" ELSE "failed"])]
        /\ UNCHANGED <<tables, discord, clock, history>>

\* ------------------------------------------------------------------ cfg_addxp
\* Lines 1440-1448: /levelconfig addxp calls add_xp_and_check_level_up.
CfgAddXp(t, g, u, amount) ==
    /\ FreeSlot(t)
    /\ tasks' = [tasks EXCEPT ![t] =
         [IdleTask EXCEPT !.op = "addxp", !.g = g, !.u = u, !.gain = amount,
                          !.pc = "ax_settings"]]
    /\ requested' = [requested EXCEPT ![<<g, u>>] = @ + amount]
    /\ StartHistory(t)
    /\ UNCHANGED <<tables, discord, clock, xp_start, anchor, expected_settings,
                   last_cmd>>

\* The clock advances.
Tick ==
    /\ clock < MaxClock
    /\ clock' = clock + 1
    /\ UNCHANGED <<tables, discord, tasks, history>>


\* ------------------------------------------------------- the pipeline model
\* A guild configured with /levelconfig setrange 0 1, setcooldown 2,
\* setthreadsmult 1.5 and setcurve linear 2 0 0: level L needs 2 * L XP.
TunedSettings ==
    MergeFields(DEFAULT_SETTINGS,
        [ xp_min |-> 0, xp_max |-> 1, cooldown_seconds |-> 2,
          threads_multiplier |-> <<3, 2>>,
          curve_type |-> "linear", base_xp |-> 2, curve_a |-> 0, curve_b |-> 0 ])

Event(bot, channel, len, att) ==
    [has_guild |-> TRUE, bot |-> bot, channel |-> channel, len |-> len,
     att |-> att, men |-> 0]

MsgEvents ==
    { Event(FALSE, TextChannel, 5, 0),
      Event(FALSE, TextChannel, 5, 1),
      Event(FALSE, ThreadChannel, 5, 0),
      Event(TRUE, TextChannel, 5, 0),
      Event(FALSE, IgnoredChannel, 5, 0),
      Event(FALSE, TextChannel, 4, 0),
      [Event(FALSE, TextChannel, 5, 0) EXCEPT !.has_guild = FALSE] }

AddXpAmounts == {0, 1, 6}

UserKeys == Guilds \X Users

\* Rewards at levels 1 to 4; the role of level 2 has since been deleted from
\* the guild, and levels 1 and 4 give the same role.
InitRewards ==
    [k \in {"g1"} \X (1..4) |->
        IF k[2] = 2 THEN RoleGone ELSE IF k[2] = 3 THEN RoleB ELSE RoleA]

NoCmd == [kind |-> "none", g |-> "g1", invalid |-> FALSE,
          before |-> DEFAULT_SETTINGS, fields |-> <<>>]

Init ==
    /\ guild_settings = [g \in Guilds |-> TunedSettings]
    /\ user_xp \in { EmptyTable,
                     [k \in UserKeys |-> [xp |-> 2, level |-> 1, last_message_ts |-> 0]] }
    /\ role_rewards = InitRewards
    /\ ignored_channels = {<<"g1", IgnoredChannel>>}
    /\ blacklisted_roles = {<<"g1", RoleBlack>>}
    /\ guild_roles = {RoleA, RoleB, RoleBlack}
    /\ member_roles = [u \in Users |-> {}]
    /\ clock = TunedSettings.cooldown_seconds
    /\ tasks = [t \in Tasks |-> IdleTask]
    /\ requested = [k \in UserKeys |-> 0]
    /\ xp_start = [k \in UserKeys |-> CurrentXp(user_xp, k[1], k[2])]
    /\ anchor = [k \in UserKeys |-> -1]
    /\ overlapped = FALSE
    /\ expected_settings = guild_settings
    /\ last_cmd = NoCmd

\* add_roles, send, defer and followup.send are the awaits at which a handler
\* waits for Discord.
Suspended(t) == tasks[t].pc \in {"ax_grant", "announce", "rc_settings", "rc_reply"}

\* A variant with a switch at every acquisition of _db_lock.
TurnAnyTime(t) == TRUE

\* The event loop runs one handler at a time: t takes a step only when every
\* other handler is over or waits for Discord.  The sqlite3 calls are
\* synchronous and _db_lock is free whenever a handler asks for it, so a
\* handler runs from one Discord await to the next without a switch.
Turn(t) == \A o \in Tasks \ {t} : ~Running(o) \/ Suspended(o)

Next ==
    \/ \E t \in Tasks, u \in Users, ev \in MsgEvents : Turn(t) /\ MsgStart(t, "g1", u, ev)
    \/ \E t \in Tasks : Turn(t) /\ MsgBotSettings(t)
    \/ \E t \in Tasks : Turn(t) /\ MsgSettings(t)
    \/ \E t \in Tasks : Turn(t) /\ MsgChannelIgnored(t)
    \/ \E t \in Tasks : Turn(t) /\ MsgBlacklist(t)
    \/ \E t \in Tasks : Turn(t) /\ MsgCooldown(t)
    \/ \E t \in Tasks : Turn(t) /\ MsgSetTs(t)
    \/ \E t \in Tasks : Turn(t) /\ AxSettings(t)
    \/ \E t \in Tasks : Turn(t) /\ AxApply(t)
    \/ \E t \in Tasks : Turn(t) /\ AxRewards(t)
    \/ \E t \in Tasks, outcome \in GrantOutcomes : Turn(t) /\ AxGrant(t, outcome)
    \/ \E t \in Tasks, outcome \in SendOutcomes : Turn(t) /\ MsgAnnounce(t, outcome)
    \/ Tick

Spec == Init /\ [][Next]_vars

\* ---------------------------------------------------------- the events model
\* Messages at one second: the author may hold the blacklisted role, the guild
\* may have ignore_bots switched off, the author may or may not have a row.
EventSettings ==
    { TunedSettings, MergeFields(TunedSettings, [ignore_bots |-> 0]) }

InitEvents ==
    /\ guild_settings \in {[g \in Guilds |-> s] : s \in EventSettings}
    /\ user_xp \in { EmptyTable,
                     [k \in UserKeys |-> [xp |-> 2, level |-> 1, last_message_ts |-> 0]] }
    /\ role_rewards = InitRewards
    /\ ignored_channels = {<<"g1", IgnoredChannel>>}
    /\ blacklisted_roles = {<<"g1", RoleBlack>>}
    /\ guild_roles = {RoleA, RoleB, RoleBlack}
    /\ member_roles \in {[u \in Users |-> {}], [u \in Users |-> {RoleBlack}]}
    /\ clock = TunedSettings.cooldown_seconds
    /\ tasks = [t \in Tasks |-> IdleTask]
    /\ requested = [k \in UserKeys |-> 0]
    /\ xp_start = [k \in UserKeys |-> CurrentXp(user_xp, k[1], k[2])]
    /\ anchor = [k \in UserKeys |-> -1]
    /\ overlapped = FALSE
    /\ expected_settings = guild_settings
    /\ last_cmd = NoCmd

NextEvents ==
    \/ \E t \in Tasks, u \in Users, ev \in MsgEvents : Turn(t) /\ MsgStart(t, "g1", u, ev)
    \/ \E t \in Tasks : Turn(t) /\ MsgBotSettings(t)
    \/ \E t \in Tasks : Turn(t) /\ MsgSettings(t)
    \/ \E t \in Tasks : Turn(t) /\ MsgChannelIgnored(t)
    \/ \E t \in Tasks : Turn(t) /\ MsgBlacklist(t)
    \/ \E t \in Tasks : Turn(t) /\ MsgCooldown(t)
    \/ \E t \in Tasks : Turn(t) /\ MsgSetTs(t)
    \/ \E t \in Tasks : Turn(t) /\ AxSettings(t)
    \/ \E t \in Tasks : Turn(t) /\ AxApply(t)
    \/ \E t \in Tasks : Turn(t) /\ AxRewards(t)
    \/ \E t \in Tasks : Turn(t) /\ AxGrant(t, "granted")
    \/ \E t \in Tasks : Turn(t) /\ MsgAnnounce(t, "sent")

SpecEvents == InitEvents /\ [][NextEvents]_vars

\* ------------------------------------------------------------ the gain model
\* Guilds whose multipliers give products that end in .5: setrange 3 3 with
\* setthreadsmult 1.5, and setrange 1 1 with setmultiplier 2.5.
GainSettings ==
    { MergeFields(TunedSettings, [xp_min |-> 3, xp_max |-> 3]),
      MergeFields(TunedSettings, [xp_min |-> 1, xp_max |-> 1,
                                  multiplier |-> <<5, 2>>]) }

InitGain ==
    /\ guild_settings \in {[g \in Guilds |-> s] : s \in GainSettings}
    /\ user_xp \in { EmptyTable,
                     [k \in UserKeys |-> [xp |-> 2, level |-> 1, last_message_ts |-> 0]] }
    /\ role_rewards = InitRewards
    /\ ignored_channels = {<<"g1", IgnoredChannel>>}
    /\ blacklisted_roles = {<<"g1", RoleBlack>>}
    /\ guild_roles = {RoleA, RoleB, RoleBlack}
    /\ member_roles = [u \in Users |-> {}]
    /\ clock = TunedSettings.cooldown_seconds
    /\ tasks = [t \in Tasks |-> IdleTask]
    /\ requested = [k \in UserKeys |-> 0]
    /\ xp_start = [k \in UserKeys |-> CurrentXp(user_xp, k[1], k[2])]
    /\ anchor = [k \in UserKeys |-> -1]
    /\ overlapped = FALSE
    /\ expected_settings = guild_settings
    /\ last_cmd = NoCmd

SpecGain == InitGain /\ [][NextEvents]_vars

\* Concurrent add_xp_and_check_level_up calls made by /levelconfig addxp, with
\* a switch allowed at every acquisition of _db_lock.
NextApply ==
    \/ \E t \in Tasks, u \in Users, amount \in AddXpAmounts : CfgAddXp(t, "g1", u, amount)
    \/ \E t \in Tasks : AxSettings(t)
    \/ \E t \in Tasks : AxApply(t)
    \/ \E t \in Tasks : AxRewards(t)
    \/ \E t \in Tasks, outcome \in GrantOutcomes : AxGrant(t, outcome)

SpecApply == Init /\ [][NextApply]_vars

\* Messages with one attachment at one reading of the clock: the whole
\* pipeline, up to the level-up notification, with a switch allowed at every
\* acquisition of _db_lock.
NotifyEvents == {Event(FALSE, TextChannel, 5, 1)}

NextNotify ==
    \/ \E t \in Tasks, u \in Users, ev \in NotifyEvents : MsgStart(t, "g1", u, ev)
    \/ \E t \in Tasks : MsgSettings(t)
    \/ \E t \in Tasks : MsgChannelIgnored(t)
    \/ \E t \in Tasks : MsgBlacklist(t)
    \/ \E t \in Tasks : MsgCooldown(t)
    \/ \E t \in Tasks : MsgSetTs(t)
    \/ \E t \in Tasks : AxSettings(t)
    \/ \E t \in Tasks : AxApply(t)
    \/ \E t \in Tasks : AxRewards(t)
    \/ \E t \in Tasks, outcome \in GrantOutcomes : AxGrant(t, outcome)
    \/ \E t \in Tasks, outcome \in SendOutcomes : MsgAnnounce(t, outcome)

SpecNotify == Init /\ [][NextNotify]_vars

\* Messages with one attachment as the clock advances, the handlers run by
\* the event loop: the timestamps written by successive events.
NextStamp ==
    \/ \E t \in Tasks, u \in Users, ev \in NotifyEvents :
          Turn(t) /\ MsgStart(t, "g1", u, ev)
    \/ \E t \in Tasks : Turn(t) /\ MsgSettings(t)
    \/ \E t \in Tasks : Turn(t) /\ MsgChannelIgnored(t)
    \/ \E t \in Tasks : Turn(t) /\ MsgBlacklist(t)
    \/ \E t \in Tasks : Turn(t) /\ MsgCooldown(t)
    \/ \E t \in Tasks : Turn(t) /\ MsgSetTs(t)
    \/ \E t \in Tasks : Turn(t) /\ AxSettings(t)
    \/ \E t \in Tasks : Turn(t) /\ AxApply(t)
    \/ \E t \in Tasks : Turn(t) /\ AxRewards(t)
    \/ \E t \in Tasks : Turn(t) /\ AxGrant(t, "granted")
    \/ \E t \in Tasks : Turn(t) /\ MsgAnnounce(t, "sent")
    \/ Tick

SpecStamp == Init /\ [][NextStamp]_vars


\* ------------------------------------------------ administrative commands
\* Lines 957-963: /levelconfig show reads the settings (and creates the row).
CfgShow(g) ==
    /\ guild_settings' = SettingsAfterGet(guild_settings, g)
    /\ last_cmd' = NoCmd
    /\ UNCHANGED <<user_xp, role_rewards, ignored_channels, blacklisted_roles,
                   discord, clock, tasks, requested, xp_start, anchor, overlapped,
                   expected_settings>>

\* A variant of /levelconfig setrange without the xp_max < xp_min test.
SetRangeUnchecked(gs, g, xp_min, xp_max) ==
    update_settings(gs, g, [xp_min |-> xp_min, xp_max |-> xp_max])

\* Lines 1021-1030: the guild_settings table after /levelconfig setrange.
SetRangeResult(gs, g, xp_min, xp_max) ==
    IF xp_max < xp_min THEN gs
    ELSE update_settings(gs, g, [xp_min |-> xp_min, xp_max |-> xp_max])

\* Lines 1015-1036: /levelconfig setrange.
CfgSetRange(g, xp_min, xp_max) ==
    /\ guild_settings' = SetRangeResult(guild_settings, g, xp_min, xp_max)
    /\ last_cmd' = [kind |-> "setrange", g |-> g, invalid |-> (xp_max < xp_min),
                    before |-> get_settings(guild_settings, g),
                    fields |-> <<xp_min, xp_max>>]
    /\ expected_settings' =
         IF xp_max < xp_min THEN expected_settings
         ELSE [expected_settings EXCEPT ![g] =
                 MergeFields(get_settings(guild_settings, g),
                             [xp_min |-> xp_min, xp_max |-> xp_max])]
    /\ UNCHANGED <<user_xp, role_rewards, ignored_channels, blacklisted_roles,
                   discord, clock, tasks, requested, xp_start, anchor, overlapped>>

CurveNames == {"linear", "quadratic", "exponential"}

\* Lines 949-952: any other name becomes "quadratic".
CurveName(value) == IF value \in CurveNames THEN value ELSE "quadratic"

\* Lines 1169-1176: the fields /levelconfig setcurve writes.
SetCurveFields(curve_type, base_xp, curve_a, curve_b) ==
    [curve_type |-> CurveName(curve_type), base_xp |-> base_xp,
     curve_a |-> curve_a, curve_b |-> curve_b]

\* Lines 1161-1184: /levelconfig setcurve.
CfgSetCurve(g, curve_type, base_xp, curve_a, curve_b) ==
    LET fields == SetCurveFields(curve_type, base_xp, curve_a, curve_b)
    IN  /\ guild_settings' = update_settings(guild_settings, g, fields)
        /\ last_cmd' = [kind |-> "setcurve", g |-> g,
                        invalid |-> (curve_type \notin CurveNames),
                            before |-> get_settings(guild_settings, g),
                        fields |-> <<curve_type, base_xp, curve_a, curve_b>>]
        /\ expected_settings' = [expected_settings EXCEPT ![g] =
                 MergeFields(get_settings(guild_settings, g), fields)]
        /\ UNCHANGED <<user_xp, role_rewards, ignored_channels, blacklisted_roles,
                       discord, clock, tasks, requested, xp_start, anchor,
                       overlapped>>

\* Lines 1043-1054: /levelconfig setcooldown.
CfgSetCooldown(g, seconds) ==
    /\ guild_settings' = update_settings(guild_settings, g, [cooldown_seconds |-> seconds])
    /\ last_cmd' = NoCmd
    /\ expected_settings' = [expected_settings EXCEPT ![g] =
             MergeFields(get_settings(guild_settings, g), [cooldown_seconds |-> seconds])]
    /\ UNCHANGED <<user_xp, role_rewards, ignored_channels, blacklisted_roles,
                   discord, clock, tasks, requested, xp_start, anchor, overlapped>>

\* Lines 1192-1201: /levelconfig announce.
CfgAnnounce(g, enabled) ==
    LET fields == [announce_level_up |-> IF enabled THEN 1 ELSE 0]
    IN  /\ guild_settings' = update_settings(guild_settings, g, fields)
        /\ last_cmd' = NoCmd
        /\ expected_settings' = [expected_settings EXCEPT ![g] =
                 MergeFields(get_settings(guild_settings, g), fields)]
        /\ UNCHANGED <<user_xp, role_rewards, ignored_channels, blacklisted_roles,
                       discord, clock, tasks, requested, xp_start, anchor,
                       overlapped>>

\* Lines 1508-1516: /levelconfig resetuser, an UPDATE of the row if there is one.
CfgResetUser(g, u) ==
    /\ user_xp' = IF <<g, u>> \in DOMAIN user_xp
                  THEN [user_xp EXCEPT ![<<g, u>>].xp = 0, ![<<g, u>>].level = 0]
                  ELSE user_xp
    /\ last_cmd' = NoCmd
    /\ UNCHANGED <<guild_settings, role_rewards, ignored_channels,
                   blacklisted_roles, discord, clock, tasks, requested, xp_start,
                   anchor, overlapped, expected_settings>>

\* A variant of the wipe that leaves the role rewards of the tenant.
CfgWipeGuildKeepsRewards(g) ==
    /\ user_xp' = DeleteRows(user_xp, {k \in DOMAIN user_xp : k[1] = g})
    /\ ignored_channels' = {p \in ignored_channels : p[1] # g}
    /\ blacklisted_roles' = {p \in blacklisted_roles : p[1] # g}
    /\ guild_settings' = DeleteRows(guild_settings, {g})
    /\ last_cmd' = NoCmd
    /\ expected_settings' = [expected_settings EXCEPT ![g] = DEFAULT_SETTINGS]
    /\ UNCHANGED <<role_rewards, discord, clock, tasks, requested, xp_start, anchor,
                   overlapped>>

\* A variant of the wipe whose DELETE FROM user_xp has no WHERE clause.
CfgWipeGuildEveryTenant(g) ==
    /\ user_xp' = EmptyTable
    /\ ignored_channels' = {p \in ignored_channels : p[1] # g}
    /\ blacklisted_roles' = {p \in blacklisted_roles : p[1] # g}
    /\ role_rewards' = DeleteRows(role_rewards, {k \in DOMAIN role_rewards : k[1] = g})
    /\ guild_settings' = DeleteRows(guild_settings, {g})
    /\ last_cmd' = NoCmd
    /\ expected_settings' = [expected_settings EXCEPT ![g] = DEFAULT_SETTINGS]
    /\ UNCHANGED <<discord, clock, tasks, requested, xp_start, anchor, overlapped>>

\* Lines 1539-1546: /levelconfig wipeguild confirm=True, one critical section.
CfgWipeGuild(g) ==
    /\ user_xp' = DeleteRows(user_xp, {k \in DOMAIN user_xp : k[1] = g})
    /\ ignored_channels' = {p \in ignored_channels : p[1] # g}
    /\ blacklisted_roles' = {p \in blacklisted_roles : p[1] # g}
    /\ role_rewards' = DeleteRows(role_rewards, {k \in DOMAIN role_rewards : k[1] = g})
    /\ guild_settings' = DeleteRows(guild_settings, {g})
    /\ last_cmd' = NoCmd
    /\ expected_settings' = [expected_settings EXCEPT ![g] = DEFAULT_SETTINGS]
    /\ UNCHANGED <<discord, clock, tasks, requested, xp_start, anchor, overlapped>>

\* Lines 1469-1475: /levelconfig setlevel up to its first await.
CfgSetLevel(t, g, u, level_value) ==
    /\ FreeSlot(t)
    /\ tasks' = [tasks EXCEPT ![t] =
         [IdleTask EXCEPT !.op = "setlevel", !.g = g, !.u = u,
                          !.level_value = level_value, !.pc = "sl_settings"]]
    /\ last_cmd' = NoCmd
    /\ UNCHANGED <<tables, discord, clock, requested, xp_start, anchor,
                   overlapped, expected_settings>>

\* Lines 1475-1483: get_settings and the XP the level needs.
SetLevelSettings(t) ==
    LET me == tasks[t]
        s == get_settings(guild_settings, me.g)
    IN  /\ me.pc = "sl_settings"
        /\ guild_settings' = SettingsAfterGet(guild_settings, me.g)
        /\ tasks' = [tasks EXCEPT ![t] =
             [me EXCEPT !.new_total =
                          xp_required_for_level(s.curve_type, s.base_xp, s.curve_a,
                                                s.curve_b, me.level_value),
                        !.pc = "sl_write"]]
        /\ last_cmd' = NoCmd
        /\ UNCHANGED <<user_xp, role_rewards, ignored_channels, blacklisted_roles,
                       discord, clock, requested, xp_start, anchor, overlapped,
                       expected_settings>>

\* Lines 1484-1497: the upsert of (xp, level); last_message_ts is kept.  The
\* command is over and its slot is free again.
SetLevelWrite(t) ==
    LET me == tasks[t]
    IN  /\ me.pc = "sl_write"
        /\ user_xp' = Upsert(user_xp, <<me.g, me.u>>,
                             [xp |-> me.new_total, level |-> me.level_value,
                              last_message_ts |->
                                  get_last_message_ts(user_xp, me.g, me.u)])
        /\ tasks' = [tasks EXCEPT ![t] = IdleTask]
        /\ last_cmd' = NoCmd
        /\ UNCHANGED <<guild_settings, role_rewards, ignored_channels,
                       blacklisted_roles, discord, clock, requested, xp_start,
                       anchor, overlapped, expected_settings>>

\* Lines 834-845: /level profile up to its first await.
Profile(t, g, u) ==
    /\ FreeSlot(t)
    /\ tasks' = [tasks EXCEPT ![t] =
         [IdleTask EXCEPT !.op = "profile", !.g = g, !.u = u, !.pc = "pf_record"]]
    /\ last_cmd' = NoCmd
    /\ UNCHANGED <<tables, discord, clock, requested, xp_start, anchor,
                   overlapped, expected_settings>>

\* Line 846: get_user_record creates the row when it is missing.
ProfileRecord(t) ==
    LET me == tasks[t]
    IN  /\ me.pc = "pf_record"
        /\ user_xp' = get_user_record(user_xp, me.g, me.u)
        /\ tasks' = [tasks EXCEPT ![t] = [me EXCEPT !.pc = "pf_settings"]]
        /\ last_cmd' = NoCmd
        /\ UNCHANGED <<guild_settings, role_rewards, ignored_channels,
                       blacklisted_roles, discord, clock, requested, xp_start,
                       anchor, overlapped, expected_settings>>

\* Lines 847-878: get_settings, then user_rank and the reply, which write nothing.
ProfileSettings(t) ==
    LET me == tasks[t]
    IN  /\ me.pc = "pf_settings"
        /\ guild_settings' = SettingsAfterGet(guild_settings, me.g)
        /\ tasks' = [tasks EXCEPT ![t] = IdleTask]
        /\ last_cmd' = NoCmd
        /\ UNCHANGED <<user_xp, role_rewards, ignored_channels, blacklisted_roles,
                       discord, clock, requested, xp_start, anchor, overlapped,
                       expected_settings>>

\* --------------------------------------------------- the administration model
\* The tables are empty, as the CREATE TABLE statements leave a new database.
InitAdmin ==
    /\ guild_settings = EmptyTable
    /\ user_xp = EmptyTable
    /\ role_rewards = EmptyTable
    /\ ignored_channels = {}
    /\ blacklisted_roles = {}
    /\ guild_roles = {RoleA, RoleB, RoleBlack}
    /\ member_roles = [u \in Users |-> {}]
    /\ clock = 0
    /\ tasks = [t \in Tasks |-> IdleTask]
    /\ requested = [k \in UserKeys |-> 0]
    /\ xp_start = [k \in UserKeys |-> 0]
    /\ anchor = [k \in UserKeys |-> -1]
    /\ overlapped = FALSE
    /\ expected_settings = [g \in Guilds |-> DEFAULT_SETTINGS]
    /\ last_cmd = NoCmd

\* <<xp_min, xp_max>> given to setrange; <<5, 1>> is the invalid input.
RangeInputs == {<<0, 1>>, <<5, 1>>}

\* <<curve_type, base_xp, curve_a, curve_b>> given to setcurve; "cubic" is no
\* curve type.
CurveInputs ==
    { <<"linear", 2, 0, 0>>, <<"quadratic", 1, -1, 0>>, <<"cubic", 3, 50, 0>> }

LevelInputs == {0, 2}

NextAdmin ==
    \/ \E g \in Guilds : CfgShow(g)
    \/ \E g \in Guilds, r \in RangeInputs : CfgSetRange(g, r[1], r[2])
    \/ \E g \in Guilds, c \in CurveInputs : CfgSetCurve(g, c[1], c[2], c[3], c[4])
    \/ \E g \in Guilds, u \in Users : CfgResetUser(g, u)
    \/ \E g \in Guilds : CfgWipeGuild(g)
    \/ \E t \in Tasks, g \in Guilds, u \in Users, lv \in LevelInputs : CfgSetLevel(t, g, u, lv)
    \/ \E t \in Tasks : SetLevelSettings(t)
    \/ \E t \in Tasks : SetLevelWrite(t)
    \/ \E t \in Tasks, g \in Guilds, u \in Users : Profile(t, g, u)
    \/ \E t \in Tasks : ProfileRecord(t)
    \/ \E t \in Tasks : ProfileSettings(t)

SpecAdmin == InitAdmin /\ [][NextAdmin]_vars


\* ---------------------------------------------------- the configuration model
CooldownInputs == {0, 2}

NextConfig ==
    \/ \E g \in Guilds : CfgShow(g)
    \/ \E g \in Guilds, r \in RangeInputs : CfgSetRange(g, r[1], r[2])
    \/ \E g \in Guilds, c \in CurveInputs : CfgSetCurve(g, c[1], c[2], c[3], c[4])
    \/ \E g \in Guilds, seconds \in CooldownInputs : CfgSetCooldown(g, seconds)
    \/ \E g \in Guilds, enabled \in BOOLEAN : CfgAnnounce(g, enabled)
    \/ \E g \in Guilds : CfgWipeGuild(g)

SpecConfig == InitAdmin /\ [][NextConfig]_vars

\* ------------------------------------------------------------ cfg_simulate
\* Lines 1567-1585: the line of level lvl is <<lvl, req, step>>.
SimulateLines(s, levels) ==
    [i \in 1..(levels + 1) |->
        LET lvl == i - 1
        IN  << lvl,
               xp_required_for_level(s.curve_type, s.base_xp, s.curve_a, s.curve_b, lvl),
               IF lvl = 0 THEN 0
               ELSE xp_between_levels(s.curve_type, s.base_xp, s.curve_a, s.curve_b,
                                      lvl - 1) >>]

\* Lines 1562-1599: /levelconfig simulate up to interaction.response.defer.
CfgSimulate(t, g, levels) ==
    /\ FreeSlot(t)
    /\ guild_settings' = SettingsAfterGet(guild_settings, g)
    /\ tasks' = [tasks EXCEPT ![t] =
         [IdleTask EXCEPT !.op = "simulate", !.g = g, !.level_value = levels,
                          !.rows = SimulateLines(get_settings(guild_settings, g), levels),
                          !.pc = "sim_reply"]]
    /\ last_cmd' = NoCmd
    /\ UNCHANGED <<user_xp, role_rewards, ignored_channels, blacklisted_roles,
                   discord, clock, requested, xp_start, anchor, overlapped,
                   expected_settings>>

\* Lines 1599-1620: the chunks are sent; the command is over.
SimulateReply(t) ==
    /\ tasks[t].pc = "sim_reply"
    /\ tasks' = [tasks EXCEPT ![t] = IdleTask]
    /\ UNCHANGED <<tables, discord, clock, history>>

\* ------------------------------------------------------------ the curve model
\* The curves /levelconfig setcurve has stored: <<curve_type, base_xp, curve_a,
\* curve_b>>.  The exponential thresholds are computed with 23^L / 20^L, which
\* is exact and stays inside TLC's integers for L <= 6; base_xp 100 has no
\* threshold that ends in .5 there.
StoredCurves ==
    { <<"quadratic", 100, 50, 0>>,
      <<"linear", 10, 5, 0>>,
      <<"linear", 1, 0, 0>>,
      <<"quadratic", 1, -4, 4>>,
      <<"quadratic", 1, -1, 0>>,
      <<"exponential", 100, 50, 0>> }

CurveSettings(c) ==
    MergeFields(DEFAULT_SETTINGS, SetCurveFields(c[1], c[2], c[3], c[4]))

\* The amounts given to /levelconfig addxp under the stored curve.
CurveAmounts(s) ==
    IF s.curve_type = "exponential" THEN {0, 1, 15, 17}
    ELSE {0, 1, 149, 150, 499, 500, 20000}

SimulateInputs == {2, 3}

InitCurve ==
    /\ guild_settings \in {[g \in Guilds |-> CurveSettings(c)] : c \in StoredCurves}
    /\ user_xp = EmptyTable
    /\ role_rewards = EmptyTable
    /\ ignored_channels = {}
    /\ blacklisted_roles = {}
    /\ guild_roles = {RoleA, RoleB, RoleBlack}
    /\ member_roles = [u \in Users |-> {}]
    /\ clock = 0
    /\ tasks = [t \in Tasks |-> IdleTask]
    /\ requested = [k \in UserKeys |-> 0]
    /\ xp_start = [k \in UserKeys |-> 0]
    /\ anchor = [k \in UserKeys |-> -1]
    /\ overlapped = FALSE
    /\ expected_settings = guild_settings
    /\ last_cmd = NoCmd

NextCurve ==
    \/ \E t \in Tasks, u \in Users :
          \E amount \in CurveAmounts(get_settings(guild_settings, "g1")) :
              Turn(t) /\ CfgAddXp(t, "g1", u, amount)
    \/ \E t \in Tasks : Turn(t) /\ AxSettings(t)
    \/ \E t \in Tasks : Turn(t) /\ AxApply(t)
    \/ \E t \in Tasks : Turn(t) /\ AxRewards(t)
    \/ \E t \in Tasks, levels \in SimulateInputs : Turn(t) /\ CfgSimulate(t, "g1", levels)
    \/ \E t \in Tasks : SimulateReply(t)

SpecCurve == InitCurve /\ [][NextCurve]_vars

\* ------------------------------------------------- leaderboard and rank
\* The key k comes before the key j in ORDER BY xp DESC, user_id ASC.
XpDescIdAsc(ux, k, j) ==
    \/ ux[k].xp > ux[j].xp
    \/ ux[k].xp = ux[j].xp /\ k[2] <= j[2]

\* A variant that orders equal xp by user_id descending.
RECURSIVE OrderedRowsIdDesc(_, _)
OrderedRowsIdDesc(ux, keys) ==
    IF keys = {} THEN <<>>
    ELSE LET k == CHOOSE x \in keys :
                    \A y \in keys : \/ ux[x].xp > ux[y].xp
                                    \/ ux[x].xp = ux[y].xp /\ x[2] >= y[2]
         IN  <<(<<k[2], ux[k].xp, ux[k].level>>)>> \o OrderedRowsIdDesc(ux, keys \ {k})

\* SELECT user_id, xp, level ... ORDER BY xp DESC, user_id ASC
RECURSIVE OrderedRows(_, _)
OrderedRows(ux, keys) ==
    IF keys = {} THEN <<>>
    ELSE LET k == CHOOSE x \in keys : \A y \in keys : XpDescIdAsc(ux, x, y)
         IN  <<(<<k[2], ux[k].xp, ux[k].level>>)>> \o OrderedRows(ux, keys \ {k})

\* Lines 468-474: ... WHERE guild_id = ? ... LIMIT ? OFFSET ?
top_users(ux, g, limit, offset) ==
    LET all == OrderedRows(ux, {k \in DOMAIN ux : k[1] = g})
        first == Max(0, offset) + 1
        last == IF limit < 0 THEN Len(all)
                ELSE IF first + limit - 1 < Len(all) THEN first + limit - 1
                ELSE Len(all)
    IN  SubSeq(all, first, last)

\* A variant that also counts the subjects with the same xp.
user_rank_counting_ties(ux, g, u) ==
    IF <<g, u>> \notin DOMAIN ux THEN 1
    ELSE Cardinality({k \in DOMAIN ux : k[1] = g /\ ux[k].xp >= ux[<<g, u>>].xp}) + 1

\* Lines 477-486: COUNT(*) of the rows with more xp, plus 1.  Without a row of
\* the subject the subquery is NULL, no row compares greater and the count is 0.
user_rank(ux, g, u) ==
    IF <<g, u>> \notin DOMAIN ux THEN 1
    ELSE Cardinality({k \in DOMAIN ux : k[1] = g /\ ux[k].xp > ux[<<g, u>>].xp}) + 1

\* Line 906: per_page = 10
PerPage == 10

\* Lines 580-595: the description of the embed: the empty-state text when there
\* are no rows, else one line <<rank, user_id, level, xp>> per row.
build_leaderboard_embed(rows, start_index) ==
    IF rows = <<>>
    THEN <<"No data to display yet. Start chatting to earn XP!">>
    ELSE [i \in DOMAIN rows |-> <<start_index + i, rows[i][1], rows[i][3], rows[i][2]>>]

\* Lines 896-918: /level leaderboard renders page 0 and attaches the view.
Leaderboard(t, g) ==
    /\ FreeSlot(t)
    /\ tasks' = [tasks EXCEPT ![t] =
         [IdleTask EXCEPT !.op = "leaderboard", !.g = g, !.page = 0,
                          !.rows = top_users(user_xp, g, PerPage, 0),
                          !.pc = "lb_view"]]
    /\ UNCHANGED <<tables, discord, clock, history>>

\* Lines 639-641: _render reads the page self.page.
Render(rec, ux, page) ==
    [rec EXCEPT !.page = page,
                !.rows = top_users(ux, rec.g, PerPage, page * PerPage)]

\* A variant of the Previous button that does not test the page.
PreviousUnchecked(t) ==
    /\ tasks[t].pc = "lb_view"
    /\ tasks' = [tasks EXCEPT ![t] = Render(tasks[t], user_xp, tasks[t].page - 1)]
    /\ UNCHANGED <<tables, discord, clock, history>>

\* Lines 652-659: the Previous button.
Previous(t) ==
    /\ tasks[t].pc = "lb_view"
    /\ tasks' = [tasks EXCEPT ![t] =
         Render(tasks[t], user_xp,
                IF tasks[t].page > 0 THEN tasks[t].page - 1 ELSE tasks[t].page)]
    /\ UNCHANGED <<tables, discord, clock, history>>

\* Lines 661-664: the Next button.
NextPage(t) ==
    /\ tasks[t].pc = "lb_view"
    /\ tasks[t].page < MaxPage
    /\ tasks' = [tasks EXCEPT ![t] = Render(tasks[t], user_xp, tasks[t].page + 1)]
    /\ UNCHANGED <<tables, discord, clock, history>>

\* Lines 666-669: the view times out; its buttons are disabled.
LeaderboardTimeout(t) ==
    /\ tasks[t].pc = "lb_view"
    /\ tasks' = [tasks EXCEPT ![t] = IdleTask]
    /\ UNCHANGED <<tables, discord, clock, history>>

\* Lines 1697-1708: the context menu reads the record (creating it), the
\* settings (creating them) and the rank.
ViewLevelProfile(t, g, u) ==
    LET ux == get_user_record(user_xp, g, u)
    IN  /\ FreeSlot(t)
        /\ user_xp' = ux
        /\ guild_settings' = SettingsAfterGet(guild_settings, g)
        /\ tasks' = [tasks EXCEPT ![t] =
             [IdleTask EXCEPT !.op = "viewprofile", !.g = g, !.u = u,
                              !.new_total = ux[<<g, u>>].xp,
                              !.new_level = ux[<<g, u>>].level,
                              !.rank = user_rank(ux, g, u),
                              !.pc = "vp_reply"]]
        /\ UNCHANGED <<role_rewards, ignored_channels, blacklisted_roles,
                       discord, clock, history>>

\* Lines 1710-1745: the embed is sent; the command is over.
ViewLevelProfileReply(t) ==
    /\ tasks[t].pc = "vp_reply"
    /\ tasks' = [tasks EXCEPT ![t] = IdleTask]
    /\ UNCHANGED <<tables, discord, clock, history>>

\* ------------------------------------------------------ the leaderboard model
\* user_id -> xp of the rows of tenant g1: subjects A = 1 and B = 2 at 300 and
\* C = 3 at 100, or twelve subjects with four values of xp, or the subjects 4
\* and 5 with different xp.
BoardXp ==
    { (1 :> 300) @@ (2 :> 300) @@ (3 :> 100),
      [i \in 1..12 |-> 100 * ((i % 4) + 1)],
      (4 :> 100) @@ (5 :> 300) }

\* The rows of g1 for xp, and one row of another tenant with more xp.
BoardStore(xp) ==
    [k \in ({"g1"} \X DOMAIN xp) \cup {<<"g2", 50>>} |->
        LET total == IF k[1] = "g1" THEN xp[k[2]] ELSE 900
        IN  [xp |-> total,
             level |-> level_from_total_xp(DEFAULT_SETTINGS.curve_type,
                                           DEFAULT_SETTINGS.base_xp,
                                           DEFAULT_SETTINGS.curve_a,
                                           DEFAULT_SETTINGS.curve_b, total),
             last_message_ts |-> 0]]

\* The subjects whose profile is viewed; 20 has no row.
BoardViewed == {1, 2, 3, 20}

InitBoard ==
    /\ guild_settings = EmptyTable
    /\ user_xp \in {BoardStore(xp) : xp \in BoardXp}
    /\ role_rewards = EmptyTable
    /\ ignored_channels = {}
    /\ blacklisted_roles = {}
    /\ guild_roles = {RoleA, RoleB, RoleBlack}
    /\ member_roles = [u \in Users |-> {}]
    /\ clock = 0
    /\ tasks = [t \in Tasks |-> IdleTask]
    /\ requested = [k \in UserKeys |-> 0]
    /\ xp_start = [k \in UserKeys |-> 0]
    /\ anchor = [k \in UserKeys |-> -1]
    /\ overlapped = FALSE
    /\ expected_settings = [g \in Guilds |-> DEFAULT_SETTINGS]
    /\ last_cmd = NoCmd

NextBoard ==
    \/ \E t \in Tasks : Leaderboard(t, "g1")
    \/ \E t \in Tasks : Previous(t)
    \/ \E t \in Tasks : NextPage(t)
    \/ \E t \in Tasks : LeaderboardTimeout(t)
    \/ \E t \in Tasks, u \in BoardViewed : ViewLevelProfile(t, "g1", u)
    \/ \E t \in Tasks : ViewLevelProfileReply(t)

SpecBoard == InitBoard /\ [][NextBoard]_vars

\* ------------------------------------------------------------- the wipe model
\* /levelconfig wipeguild on a tenant with rows in the five tables, while
\* /levelconfig addxp calls run.
NextWipe ==
    \/ \E g \in Guilds : CfgWipeGuild(g)
    \/ \E g \in Guilds : CfgShow(g)
    \/ \E t \in Tasks, u \in Users, amount \in AddXpAmounts : CfgAddXp(t, "g1", u, amount)
    \/ \E t \in Tasks : AxSettings(t)
    \/ \E t \in Tasks : AxApply(t)
    \/ \E t \in Tasks : AxRewards(t)
    \/ \E t \in Tasks, outcome \in GrantOutcomes : AxGrant(t, outcome)

SpecWipe == Init /\ [][NextWipe]_vars

\* ----------------------------------------------------------------- cfg_recalc
\* Line 1629: /levelconfig recalc, up to await interaction.response.defer.
CfgRecalc(t, g) ==
    /\ FreeSlot(t)
    /\ tasks' = [tasks EXCEPT ![t] =
         [IdleTask EXCEPT !.op = "recalc", !.g = g, !.pc = "rc_settings",
                          !.before = [k \in {x \in DOMAIN user_xp : x[1] = g} |->
                                        user_xp[k]]]]
    /\ StartHistory(t)
    /\ UNCHANGED <<tables, discord, clock, requested, xp_start, anchor,
                   expected_settings, last_cmd>>

\* Lines 1631-1639: s = await get_settings(...), the counters start at 0.
RecalcSettings(t) ==
    LET me == tasks[t]
    IN  /\ me.pc = "rc_settings"
        /\ guild_settings' = SettingsAfterGet(guild_settings, me.g)
        /\ tasks' = [tasks EXCEPT ![t] =
             [me EXCEPT !.settings = get_settings(guild_settings, me.g),
                        !.changed = 0, !.awarded_total = 0, !.pc = "rc_rows"]]
        /\ UNCHANGED <<user_xp, role_rewards, ignored_channels, blacklisted_roles,
                       discord, clock, history>>

\* Lines 1642-1646: SELECT user_id, xp, level FROM user_xp WHERE guild_id = g.
RecalcSnapshot(ux, g) ==
    [u \in {k[2] : k \in {x \in DOMAIN ux : x[1] = g}} |->
        [xp |-> ux[<<g, u>>].xp, level |-> ux[<<g, u>>].level]]

\* Lines 1641-1650: the rows are read in one critical section and split by
\* guild.members into member_rows and other_rows.
RecalcRows(t) ==
    LET me == tasks[t]
        snap == RecalcSnapshot(user_xp, me.g)
        member_ids == DOMAIN member_roles
    IN  /\ me.pc = "rc_rows"
        /\ tasks' = [tasks EXCEPT ![t] =
             [me EXCEPT !.snap = snap, !.members = member_ids,
                        !.todo = DOMAIN snap \cap member_ids,
                        !.others = DOMAIN snap \ member_ids,
                        !.pc = "rc_member"]]
        /\ UNCHANGED <<tables, discord, clock, history>>

\* Lines 1653-1661: the next row of member_rows (the SELECT has no ORDER BY);
\* a member guild.get_member no longer finds is passed over, the others go
\* through add_xp_and_check_level_up with 0 XP.
RecalcMember(t, uid) ==
    LET me == tasks[t]
    IN  /\ me.pc = "rc_member"
        /\ uid \in me.todo
        /\ tasks' = [tasks EXCEPT ![t] =
             IF uid \notin DOMAIN member_roles
             THEN [me EXCEPT !.todo = @ \ {uid}]
             ELSE [me EXCEPT !.todo = @ \ {uid}, !.u = uid, !.gain = 0,
                             !.rows = <<>>, !.idx = 0, !.awarded = <<>>,
                             !.log = <<>>, !.pc = "ax_settings"]]
        /\ UNCHANGED <<tables, discord, clock, history>>

\* A variant of the second pass that writes nothing.
RecalcOthersWriteNothing(ux, g, others, snap, s) == ux

\* Lines 1667-1679: for the rows of other_rows the level is computed from the
\* xp of the snapshot and written when it differs from the level of the
\* snapshot; an UPDATE touches no row when none matches.
RecalcOthersWrite(ux, g, others, snap, s) ==
    [k \in DOMAIN ux |->
        IF k[1] = g /\ k[2] \in others
        THEN LET new_level == level_from_total_xp(s.curve_type, s.base_xp, s.curve_a,
                                                  s.curve_b, snap[k[2]].xp)
             IN  IF new_level # snap[k[2]].level
                 THEN [ux[k] EXCEPT !.level = new_level]
                 ELSE ux[k]
        ELSE ux[k]]

\* Lines 1673-1678: changed += 1 for every row of other_rows whose level differs.
RecalcOthersChanged(others, snap, s) ==
    Cardinality({u \in others :
        level_from_total_xp(s.curve_type, s.base_xp, s.curve_a, s.curve_b,
                            snap[u].xp) # snap[u].level})

\* Lines 1667-1679: the second pass, one critical section, entered when the
\* loop over member_rows is over.
RecalcOthers(t) ==
    LET me == tasks[t]
    IN  /\ me.pc = "rc_member"
        /\ me.todo = {}
        /\ user_xp' = RecalcOthersWrite(user_xp, me.g, me.others, me.snap, me.settings)
        /\ tasks' = [tasks EXCEPT ![t] =
             [me EXCEPT !.changed = @ + RecalcOthersChanged(me.others, me.snap,
                                                            me.settings),
                        !.pc = "rc_reply"]]
        /\ UNCHANGED <<guild_settings, role_rewards, ignored_channels,
                       blacklisted_roles, discord, clock, history>>

\* Lines 1681-1689: await interaction.followup.send(...); the command is over.
RecalcReply(t) ==
    /\ tasks[t].pc = "rc_reply"
    /\ tasks' = [tasks EXCEPT ![t] = Finish(tasks[t])]
    /\ UNCHANGED <<tables, discord, clock, history>>

\* Discord: a member leaves the guild; guild.members and guild.get_member no
\* longer have it.  The gateway event is handled while every handler waits.
MemberLeaves(uid) ==
    /\ uid \in DOMAIN member_roles
    /\ \A t \in Tasks : Running(t) => Suspended(t) /\ ~(tasks[t].pc = "ax_grant" /\ tasks[t].u = uid)
    /\ member_roles' = [u \in DOMAIN member_roles \ {uid} |-> member_roles[u]]
    /\ overlapped' = (overlapped \/ \E t \in Tasks : Running(t))
    /\ UNCHANGED <<tables, guild_roles, clock, tasks, requested, xp_start, anchor,
                   expected_settings, last_cmd>>

\* Discord: a user joins the guild; guild.members and guild.get_member have it
\* from then on.  The gateway event is handled while every handler waits.
MemberJoins(uid) ==
    /\ uid \notin DOMAIN member_roles
    /\ \A t \in Tasks : Running(t) => Suspended(t)
    /\ member_roles' = [u \in DOMAIN member_roles \cup {uid} |->
                          IF u = uid THEN {} ELSE member_roles[u]]
    /\ overlapped' = (overlapped \/ \E t \in Tasks : Running(t))
    /\ UNCHANGED <<tables, guild_roles, clock, tasks, requested, xp_start, anchor,
                   expected_settings, last_cmd>>

\* ----------------------------------------------------------- the recalc model
\* Members 1 and 2 and the former member 3 have rows; the curve has been
\* changed since their levels were stored.  Member 2 may leave;
\* /levelconfig addxp is called for members.
RecalcMembers == {1, 2}
RecalcSubjects == {1, 2, 3}
RecalcLeavers == {2}
RecalcJoiners == {3}
RecalcAmounts == {300}

\* Thresholds of the default curve: 150, 500, 1050, 1700.
RecalcStores ==
    { (<<"g1", 1>> :> [xp |-> 1100, level |-> 1, last_message_ts |-> 5])
        @@ (<<"g1", 2>> :> [xp |-> 200, level |-> 3, last_message_ts |-> 6])
        @@ (<<"g1", 3>> :> [xp |-> 450, level |-> 0, last_message_ts |-> 7])
        @@ (<<"g2", 1>> :> [xp |-> 800, level |-> 1, last_message_ts |-> 0]),
      (<<"g1", 1>> :> [xp |-> 1800, level |-> 4, last_message_ts |-> 5])
        @@ (<<"g1", 2>> :> [xp |-> 160, level |-> 0, last_message_ts |-> 6])
        @@ (<<"g1", 3>> :> [xp |-> 100, level |-> 2, last_message_ts |-> 7]) }

InitRecalc ==
    /\ guild_settings = [g \in Guilds |-> DEFAULT_SETTINGS]
    /\ user_xp \in RecalcStores
    /\ role_rewards = InitRewards
    /\ ignored_channels = {}
    /\ blacklisted_roles = {}
    /\ guild_roles = {RoleA, RoleB, RoleBlack}
    /\ member_roles = (1 :> {}) @@ (2 :> IF user_xp[<<"g1", 2>>].level = 3
                                         THEN {RoleA, RoleB} ELSE {})
    /\ clock = 0
    /\ tasks = [t \in Tasks |-> IdleTask]
    /\ requested = [k \in {"g1"} \X RecalcSubjects |-> 0]
    /\ xp_start = [k \in {"g1"} \X RecalcSubjects |-> user_xp[k].xp]
    /\ anchor = [k \in {"g1"} \X RecalcSubjects |-> -1]
    /\ overlapped = FALSE
    /\ expected_settings = guild_settings
    /\ last_cmd = NoCmd

NextRecalc ==
    \/ \E t \in Tasks : Turn(t) /\ CfgRecalc(t, "g1")
    \/ \E t \in Tasks : Turn(t) /\ RecalcSettings(t)
    \/ \E t \in Tasks : Turn(t) /\ RecalcRows(t)
    \/ \E t \in Tasks, uid \in RecalcSubjects : Turn(t) /\ RecalcMember(t, uid)
    \/ \E t \in Tasks : Turn(t) /\ RecalcOthers(t)
    \/ \E t \in Tasks : Turn(t) /\ RecalcReply(t)
    \/ \E t \in Tasks, u \in RecalcMembers \cap DOMAIN member_roles,
          amount \in RecalcAmounts : Turn(t) /\ CfgAddXp(t, "g1", u, amount)
    \/ \E t \in Tasks : Turn(t) /\ AxSettings(t)
    \/ \E t \in Tasks : Turn(t) /\ AxApply(t)
    \/ \E t \in Tasks : Turn(t) /\ AxRewards(t)
    \/ \E t \in Tasks, outcome \in GrantOutcomes : Turn(t) /\ AxGrant(t, outcome)
    \/ \E uid \in RecalcLeavers : MemberLeaves(uid)

SpecRecalc == InitRecalc /\ [][NextRecalc]_vars

\* The recalc model with live updates for every subject: user 3 may come back
\* to the guild and be given XP while a recalc runs.
NextRecalcLive ==
    \/ \E t \in Tasks : Turn(t) /\ CfgRecalc(t, "g1")
    \/ \E t \in Tasks : Turn(t) /\ RecalcSettings(t)
    \/ \E t \in Tasks : Turn(t) /\ RecalcRows(t)
    \/ \E t \in Tasks, uid \in RecalcSubjects : Turn(t) /\ RecalcMember(t, uid)
    \/ \E t \in Tasks : Turn(t) /\ RecalcOthers(t)
    \/ \E t \in Tasks : Turn(t) /\ RecalcReply(t)
    \/ \E t \in Tasks, u \in DOMAIN member_roles,
          amount \in RecalcAmounts : Turn(t) /\ CfgAddXp(t, "g1", u, amount)
    \/ \E t \in Tasks : Turn(t) /\ AxSettings(t)
    \/ \E t \in Tasks : Turn(t) /\ AxApply(t)
    \/ \E t \in Tasks : Turn(t) /\ AxRewards(t)
    \/ \E t \in Tasks, outcome \in GrantOutcomes : Turn(t) /\ AxGrant(t, outcome)
    \/ \E uid \in RecalcLeavers : MemberLeaves(uid)
    \/ \E uid \in RecalcJoiners : MemberJoins(uid)

SpecRecalcLive == InitRecalc /\ [][NextRecalcLive]_vars

\* ------------------------------------------------------ the adjustments model
\* The rows of the recalc model under the default curve or under a quadratic
\* curve whose polynomial is negative up to level 9; admins add XP to member 1
\* and take XP from it, reset it, set its level and run recalc.
AdjustCurves == { <<"quadratic", 100, 50, 0>>, <<"quadratic", 1, -10, 0>> }
AdjustAmounts == {-2000, -1, 300}
AdjustLevels == {0, 2}
AdjustMembers == {1}

InitAdjust ==
    /\ guild_settings \in {[g \in Guilds |-> CurveSettings(c)] : c \in AdjustCurves}
    /\ user_xp \in {ux \in RecalcStores : ux[<<"g1", 1>>].level = 1}
    /\ role_rewards = InitRewards
    /\ ignored_channels = {}
    /\ blacklisted_roles = {}
    /\ guild_roles = {RoleA, RoleB, RoleBlack}
    /\ member_roles = [u \in RecalcMembers |-> {}]
    /\ clock = 0
    /\ tasks = [t \in Tasks |-> IdleTask]
    /\ requested = [k \in {"g1"} \X RecalcSubjects |-> 0]
    /\ xp_start = [k \in {"g1"} \X RecalcSubjects |-> user_xp[k].xp]
    /\ anchor = [k \in {"g1"} \X RecalcSubjects |-> -1]
    /\ overlapped = FALSE
    /\ expected_settings = guild_settings
    /\ last_cmd = NoCmd

\* The commands run one after the other: a command starts when none is running.
Quiet == \A t \in Tasks : ~Running(t)

NextAdjust ==
    \/ \E t \in Tasks, u \in AdjustMembers, amount \in AdjustAmounts :
          Quiet /\ CfgAddXp(t, "g1", u, amount)
    \/ \E t \in Tasks : AxSettings(t)
    \/ \E t \in Tasks : AxApply(t)
    \/ \E t \in Tasks : AxRewards(t)
    \/ \E t \in Tasks : AxGrant(t, "granted")
    \/ \E u \in AdjustMembers : Quiet /\ CfgResetUser("g1", u)
    \/ \E t \in Tasks, u \in AdjustMembers, lv \in AdjustLevels :
          Quiet /\ CfgSetLevel(t, "g1", u, lv)
    \/ \E t \in Tasks : SetLevelSettings(t)
    \/ \E t \in Tasks : SetLevelWrite(t)
    \/ \E t \in Tasks : Quiet /\ CfgRecalc(t, "g1")
    \/ \E t \in Tasks : RecalcSettings(t)
    \/ \E t \in Tasks : RecalcRows(t)
    \/ \E t \in Tasks, uid \in RecalcSubjects : RecalcMember(t, uid)
    \/ \E t \in Tasks : RecalcOthers(t)
    \/ \E t \in Tasks : RecalcReply(t)

SpecAdjust == InitAdjust /\ [][NextAdjust]_vars

\* /levelconfig recalc run again and again, each run after the one before has
\* replied, with nothing else at work in the guild.
NextRecalcAgain ==
    \/ \E t \in Tasks : Quiet /\ CfgRecalc(t, "g1")
    \/ \E t \in Tasks : RecalcSettings(t)
    \/ \E t \in Tasks : RecalcRows(t)
    \/ \E t \in Tasks, uid \in RecalcSubjects : RecalcMember(t, uid)
    \/ \E t \in Tasks : RecalcOthers(t)
    \/ \E t \in Tasks : RecalcReply(t)
    \/ \E t \in Tasks : AxSettings(t)
    \/ \E t \in Tasks : AxApply(t)
    \/ \E t \in Tasks : AxRewards(t)
    \/ \E t \in Tasks, outcome \in GrantOutcomes : AxGrant(t, outcome)

SpecRecalcAgain == InitRecalc /\ [][NextRecalcAgain]_vars

\* ------------------------------------------------------------------ _db_lock
\* The critical sections statement by statement.  A handler asks for _db_lock
\* at pc "lk_acquire", runs the statements of its `async with` block at pc
\* "lk_stmt" (idx is the next statement) and gives the lock back with the last.
\* No scheduling is assumed: any handler may take a step at any time.

\* A variant of the lock that is never seen as held.
LockNeverHeld(ts) == FALSE

\* Line 114: asyncio.Lock.locked(), true from __aenter__ to __aexit__.
Locked(ts) == \E o \in DOMAIN ts : ts[o].holds

\* A handler reaches `async with _db_lock:` in cfg_wipeguild (line 1540),
\* add_xp_and_check_level_up (line 296) or get_user_record (line 262).
LockOps == {"lk_wipe", "lk_apply", "lk_record"}

LockEnter(t, kind, g, u, amount) ==
    /\ FreeSlot(t)
    /\ kind \in LockOps
    /\ tasks' = [tasks EXCEPT ![t] =
         [IdleTask EXCEPT !.op = kind, !.g = g, !.u = u, !.gain = amount,
                          !.curve = get_settings(guild_settings, g),
                          !.pc = "lk_acquire"]]
    /\ StartHistory(t)
    /\ UNCHANGED <<tables, discord, clock, requested, xp_start, anchor,
                   expected_settings, last_cmd>>

\* _db_lock.__aenter__: the handler goes on once the lock is free and takes it.
LockAcquire(t) ==
    /\ tasks[t].pc = "lk_acquire"
    /\ ~Locked(tasks)
    /\ tasks' = [tasks EXCEPT ![t] = [@ EXCEPT !.holds = TRUE, !.pc = "lk_stmt",
                                                !.idx = 1]]
    /\ UNCHANGED <<tables, discord, clock, history>>

\* A variant in which the critical section ends without __aexit__.
LockReleaseSkipped(rec) == Finish(rec)

\* _db_lock.__aexit__ after the last statement: the handler is over.
LockRelease(rec) == Finish([rec EXCEPT !.holds = FALSE])

\* Lines 1541-1546: the five DELETE statements of the wipe, one per step, the
\* commit and the release with the fifth.
WipeStatement(t) ==
    LET me == tasks[t]
        g == me.g
    IN  /\ me.op = "lk_wipe" /\ me.pc = "lk_stmt"
        /\ user_xp' = IF me.idx = 1
                      THEN DeleteRows(user_xp, {k \in DOMAIN user_xp : k[1] = g})
                      ELSE user_xp
        /\ ignored_channels' = IF me.idx = 2
                               THEN {p \in ignored_channels : p[1] # g}
                               ELSE ignored_channels
        /\ blacklisted_roles' = IF me.idx = 3
                                THEN {p \in blacklisted_roles : p[1] # g}
                                ELSE blacklisted_roles
        /\ role_rewards' = IF me.idx = 4
                           THEN DeleteRows(role_rewards,
                                           {k \in DOMAIN role_rewards : k[1] = g})
                           ELSE role_rewards
        /\ guild_settings' = IF me.idx = 5 THEN DeleteRows(guild_settings, {g})
                             ELSE guild_settings
        /\ tasks' = [tasks EXCEPT ![t] =
             IF me.idx = 5 THEN LockRelease(me) ELSE [me EXCEPT !.idx = @ + 1]]
        /\ UNCHANGED <<discord, clock, history>>

\* Lines 297-309: the SELECT of add_xp_and_check_level_up and, when there is no
\* row, the INSERT of (0, 0, 0); new_total holds current_xp until the UPDATE.
ApplySelect(t) ==
    LET me == tasks[t]
    IN  /\ me.op = "lk_apply" /\ me.pc = "lk_stmt" /\ me.idx = 1
        /\ user_xp' = get_user_record(user_xp, me.g, me.u)
        /\ tasks' = [tasks EXCEPT ![t] =
             [me EXCEPT !.new_total = CurrentXp(user_xp, me.g, me.u),
                        !.cur_level = CurrentLevel(user_xp, me.g, me.u),
                        !.idx = 2]]
        /\ UNCHANGED <<guild_settings, role_rewards, ignored_channels,
                       blacklisted_roles, discord, clock, history>>

\* Lines 311-318: the UPDATE of add_xp_and_check_level_up with the values
\* computed from the row the SELECT returned, the commit and the release.
ApplyUpdate(t) ==
    LET me == tasks[t]
        key == <<me.g, me.u>>
        new_total == NewTotal(me.new_total, me.gain)
        new_level == level_from_total_xp(me.curve.curve_type, me.curve.base_xp,
                                         me.curve.curve_a, me.curve.curve_b, new_total)
    IN  /\ me.op = "lk_apply" /\ me.pc = "lk_stmt" /\ me.idx = 2
        /\ user_xp' = IF key \in DOMAIN user_xp
                      THEN [user_xp EXCEPT ![key].xp = new_total,
                                           ![key].level = new_level]
                      ELSE user_xp
        /\ tasks' = [tasks EXCEPT ![t] =
             LockRelease([me EXCEPT !.new_total = new_total, !.new_level = new_level,
                                    !.applied = TRUE])]
        /\ UNCHANGED <<guild_settings, role_rewards, ignored_channels,
                       blacklisted_roles, discord, clock, history>>

\* Lines 263-277: get_user_record: the SELECT; when there is no row, the INSERT
\* and the commit, and in a second step the SELECT of the new row.
RecordStatement(t) ==
    LET me == tasks[t]
        key == <<me.g, me.u>>
        found == key \in DOMAIN user_xp
        seen == [me EXCEPT !.new_total = user_xp[key].xp,
                           !.new_level = user_xp[key].level]
    IN  /\ me.op = "lk_record" /\ me.pc = "lk_stmt"
        /\ user_xp' = IF me.idx = 1 THEN get_user_record(user_xp, me.g, me.u)
                      ELSE user_xp
        /\ tasks' = [tasks EXCEPT ![t] =
             IF found THEN LockRelease(seen)
             ELSE IF me.idx = 1 THEN [me EXCEPT !.idx = 2]
             ELSE LockRelease(me)]
        /\ UNCHANGED <<guild_settings, role_rewards, ignored_channels,
                       blacklisted_roles, discord, clock, history>>

NextLock ==
    \/ \E t \in Tasks, kind \in LockOps, u \in Users, amount \in AddXpAmounts :
          LockEnter(t, kind, "g1", u, IF kind = "lk_apply" THEN amount ELSE 0)
    \/ \E t \in Tasks : LockAcquire(t)
    \/ \E t \in Tasks : WipeStatement(t)
    \/ \E t \in Tasks : ApplySelect(t)
    \/ \E t \in Tasks : ApplyUpdate(t)
    \/ \E t \in Tasks : RecordStatement(t)

SpecLock == Init /\ [][NextLock]_vars

\* ------------------------------------------------ the wipe and work under way
\* /levelconfig wipeguild is handled while every other handler is over or
\* waits for Discord: a recalc may be waiting in defer or in add_roles.
NextWipeLive ==
    \/ \E t \in Tasks : Turn(t) /\ CfgRecalc(t, "g1")
    \/ \E t \in Tasks : Turn(t) /\ RecalcSettings(t)
    \/ \E t \in Tasks : Turn(t) /\ RecalcRows(t)
    \/ \E t \in Tasks, uid \in RecalcSubjects : Turn(t) /\ RecalcMember(t, uid)
    \/ \E t \in Tasks : Turn(t) /\ RecalcOthers(t)
    \/ \E t \in Tasks : Turn(t) /\ RecalcReply(t)
    \/ \E t \in Tasks : Turn(t) /\ AxSettings(t)
    \/ \E t \in Tasks : Turn(t) /\ AxApply(t)
    \/ \E t \in Tasks : Turn(t) /\ AxRewards(t)
    \/ \E t \in Tasks : Turn(t) /\ AxGrant(t, "granted")
    \/ (\A o \in Tasks : ~Running(o) \/ Suspended(o)) /\ CfgWipeGuild("g1")

SpecWipeLive == InitRecalc /\ [][NextWipeLive]_vars

\* ------------------------------------------------------- the tenants model
\* Lines 1245-1275 with 376-392: /levelconfig ignore add or remove, INSERT OR
\* IGNORE or DELETE of the row (guild_id, channel_id).
CfgIgnore(g, action, channel) ==
    /\ action \in {"add", "remove"}
    /\ ignored_channels' = IF action = "add"
                           THEN ignored_channels \cup {<<g, channel>>}
                           ELSE ignored_channels \ {<<g, channel>>}
    /\ last_cmd' = NoCmd
    /\ UNCHANGED <<guild_settings, user_xp, role_rewards, blacklisted_roles,
                   discord, clock, tasks, requested, xp_start, anchor, overlapped,
                   expected_settings>>

\* Lines 1307-1316 with 412-420: /levelconfig blacklistadd.
CfgBlacklistAdd(g, role) ==
    /\ blacklisted_roles' = blacklisted_roles \cup {<<g, role>>}
    /\ last_cmd' = NoCmd
    /\ UNCHANGED <<guild_settings, user_xp, role_rewards, ignored_channels,
                   discord, clock, tasks, requested, xp_start, anchor, overlapped,
                   expected_settings>>

\* Lines 1323-1332 with 421-429: /levelconfig blacklistremove.
CfgBlacklistRemove(g, role) ==
    /\ blacklisted_roles' = blacklisted_roles \ {<<g, role>>}
    /\ last_cmd' = NoCmd
    /\ UNCHANGED <<guild_settings, user_xp, role_rewards, ignored_channels,
                   discord, clock, tasks, requested, xp_start, anchor, overlapped,
                   expected_settings>>

\* Lines 1362-1383 with 440-447: /levelconfig rewardset, INSERT OR REPLACE of
\* the row (guild_id, level).
CfgRewardSet(g, level, role) ==
    /\ role_rewards' = Upsert(role_rewards, <<g, level>>, role)
    /\ last_cmd' = NoCmd
    /\ UNCHANGED <<guild_settings, user_xp, ignored_channels, blacklisted_roles,
                   discord, clock, tasks, requested, xp_start, anchor, overlapped,
                   expected_settings>>

\* Lines 1389-1410 with 449-456: /levelconfig rewardremove.
CfgRewardRemove(g, level) ==
    /\ role_rewards' = DeleteRows(role_rewards, {<<g, level>>} \cap DOMAIN role_rewards)
    /\ last_cmd' = NoCmd
    /\ UNCHANGED <<guild_settings, user_xp, ignored_channels, blacklisted_roles,
                   discord, clock, tasks, requested, xp_start, anchor, overlapped,
                   expected_settings>>

\* Two tenants in one database: g1 with the rows of users 1 and 3, g2 with
\* the rows of users 1 and 7, its own settings, reward, ignored channel and
\* blacklisted role.  User 1 is a member of both guilds.
TenantStore ==
    (<<"g1", 1>> :> [xp |-> 1100, level |-> 1, last_message_ts |-> 5])
    @@ (<<"g1", 3>> :> [xp |-> 450, level |-> 0, last_message_ts |-> 7])
    @@ (<<"g2", 1>> :> [xp |-> 5, level |-> 2, last_message_ts |-> 8])
    @@ (<<"g2", 7>> :> [xp |-> 3, level |-> 1, last_message_ts |-> 9])

InitTenants ==
    /\ guild_settings = ("g1" :> DEFAULT_SETTINGS) @@ ("g2" :> TunedSettings)
    /\ user_xp = TenantStore
    /\ role_rewards = InitRewards @@ (<<"g2", 1>> :> RoleB)
    /\ ignored_channels = {<<"g1", IgnoredChannel>>, <<"g2", IgnoredChannel>>}
    /\ blacklisted_roles = {<<"g1", RoleBlack>>, <<"g2", RoleBlack>>}
    /\ guild_roles = {RoleA, RoleB, RoleBlack}
    /\ member_roles = (1 :> {})
    /\ clock = 0
    /\ tasks = [t \in Tasks |-> IdleTask]
    /\ requested = [k \in {"g1"} \X RecalcSubjects |-> 0]
    /\ xp_start = [k \in {"g1"} \X RecalcSubjects |-> CurrentXp(user_xp, k[1], k[2])]
    /\ anchor = [k \in {"g1"} \X RecalcSubjects |-> -1]
    /\ overlapped = FALSE
    /\ expected_settings = [g \in Guilds |-> DEFAULT_SETTINGS]
    /\ last_cmd = NoCmd

TenantChannels == {TextChannel}
TenantRoles == {RoleA}
TenantRewardLevels == {5}
TenantCooldowns == {2}
TenantLevels == {2}
TenantViewed == {1, 7}

\* The commands of g1, one after the other, and the leaderboard and the
\* profile of g2.
NextTenants ==
    \/ \E t \in Tasks, amount \in RecalcAmounts :
          Quiet /\ CfgAddXp(t, "g1", 1, amount)
    \/ \E t \in Tasks : AxSettings(t)
    \/ \E t \in Tasks : AxApply(t)
    \/ \E t \in Tasks : AxRewards(t)
    \/ \E t \in Tasks : AxGrant(t, "granted")
    \/ \E seconds \in TenantCooldowns : Quiet /\ CfgSetCooldown("g1", seconds)
    \/ \E action \in {"add", "remove"}, ch \in TenantChannels :
          Quiet /\ CfgIgnore("g1", action, ch)
    \/ \E role \in TenantRoles : Quiet /\ CfgBlacklistAdd("g1", role)
    \/ \E role \in TenantRoles : Quiet /\ CfgBlacklistRemove("g1", role)
    \/ \E lv \in TenantRewardLevels : Quiet /\ CfgRewardSet("g1", lv, RoleB)
    \/ \E lv \in TenantRewardLevels : Quiet /\ CfgRewardRemove("g1", lv)
    \/ \E t \in Tasks, lv \in TenantLevels : Quiet /\ CfgSetLevel(t, "g1", 1, lv)
    \/ \E t \in Tasks : SetLevelSettings(t)
    \/ \E t \in Tasks : SetLevelWrite(t)
    \/ Quiet /\ CfgResetUser("g1", 1)
    \/ \E t \in Tasks : Quiet /\ CfgRecalc(t, "g1")
    \/ \E t \in Tasks : RecalcSettings(t)
    \/ \E t \in Tasks : RecalcRows(t)
    \/ \E t \in Tasks, uid \in RecalcSubjects : RecalcMember(t, uid)
    \/ \E t \in Tasks : RecalcOthers(t)
    \/ \E t \in Tasks : RecalcReply(t)
    \/ Quiet /\ CfgWipeGuild("g1")
    \/ \E t \in Tasks : Quiet /\ Leaderboard(t, "g2")
    \/ \E t \in Tasks : LeaderboardTimeout(t)
    \/ \E t \in Tasks, u \in TenantViewed : Quiet /\ ViewLevelProfile(t, "g2", u)
    \/ \E t \in Tasks : ViewLevelProfileReply(t)

SpecTenants == InitTenants /\ [][NextTenants]_vars

\* ----------------------------------------------- the recalc and the lock
\* cfg_recalc with its critical sections as steps: idx is 1 before the
\* snapshot (line 1642), 2 in the loop over member_rows, where every call of
\* add_xp_and_check_level_up enters `async with _db_lock` (line 296), and 3 in
\* the section of other_rows (line 1667). batch is the set of rows processed
\* since the lock was last taken.
RecalcLockEnter(t, g) ==
    /\ FreeSlot(t)
    /\ tasks' = [tasks EXCEPT ![t] =
         [IdleTask EXCEPT !.op = "lk_recalc", !.g = g, !.idx = 1,
                          !.curve = get_settings(guild_settings, g),
                          !.pc = "rl_acquire"]]
    /\ StartHistory(t)
    /\ UNCHANGED <<tables, discord, clock, requested, xp_start, anchor,
                   expected_settings, last_cmd>>

\* _db_lock.__aenter__ in the recalc: it goes on once the lock is free.
RecalcLockAcquire(t) ==
    /\ tasks[t].pc = "rl_acquire"
    /\ ~Locked(tasks)
    /\ tasks' = [tasks EXCEPT ![t] = [@ EXCEPT !.holds = TRUE, !.batch = {},
                                                !.pc = "rl_stmt"]]
    /\ UNCHANGED <<tables, discord, clock, history>>

\* A variant of the recalc that keeps the lock from the snapshot to the end.
RecalcKeepsLock(rec) == [rec EXCEPT !.pc = "rl_stmt"]

\* _db_lock.__aexit__ at the end of a critical section of the recalc that is
\* followed by another one.
RecalcRelease(rec) == [rec EXCEPT !.holds = FALSE, !.pc = "rl_acquire"]

\* Lines 1642-1650: the SELECT of the snapshot and the split by guild.members.
RecalcLockSnapshot(t) ==
    LET me == tasks[t]
        snap == RecalcSnapshot(user_xp, me.g)
        member_ids == DOMAIN member_roles
        todo == DOMAIN snap \cap member_ids
    IN  /\ me.op = "lk_recalc" /\ me.pc = "rl_stmt" /\ me.idx = 1
        /\ tasks' = [tasks EXCEPT ![t] =
             RecalcRelease([me EXCEPT !.snap = snap, !.members = member_ids,
                                      !.todo = todo,
                                      !.others = DOMAIN snap \ member_ids,
                                      !.idx = IF todo = {} THEN 3 ELSE 2])]
        /\ UNCHANGED <<tables, discord, clock, history>>

\* Lines 1653-1664 with lines 296-318: the critical section of
\* add_xp_and_check_level_up for the member row uid with 0 XP.
RecalcLockMember(t, uid) ==
    LET me == tasks[t]
        key == <<me.g, uid>>
        seen == get_user_record(user_xp, me.g, uid)
        new_total == NewTotal(seen[key].xp, 0)
        new_level == level_from_total_xp(me.curve.curve_type, me.curve.base_xp,
                                         me.curve.curve_a, me.curve.curve_b, new_total)
        todo == me.todo \ {uid}
    IN  /\ me.op = "lk_recalc" /\ me.pc = "rl_stmt" /\ me.idx = 2
        /\ uid \in me.todo
        /\ user_xp' = [seen EXCEPT ![key].xp = new_total, ![key].level = new_level]
        /\ tasks' = [tasks EXCEPT ![t] =
             RecalcRelease([me EXCEPT !.todo = todo, !.batch = @ \cup {uid},
                                      !.changed = IF new_level # me.snap[uid].level
                                                  THEN @ + 1 ELSE @,
                                      !.idx = IF todo = {} THEN 3 ELSE 2])]
        /\ UNCHANGED <<guild_settings, role_rewards, ignored_channels,
                       blacklisted_roles, discord, clock, history>>

\* Lines 1667-1689: the section of other_rows, one row per step; the commit
\* and the release come after the last row, and the recalc is over.
RecalcLockOthers(t) ==
    LET me == tasks[t]
    IN  /\ me.op = "lk_recalc" /\ me.pc = "rl_stmt" /\ me.idx = 3
        /\ \/ /\ me.others = {}
              /\ tasks' = [tasks EXCEPT ![t] = Finish([me EXCEPT !.holds = FALSE])]
              /\ UNCHANGED user_xp
           \/ \E uid \in me.others :
                /\ user_xp' = RecalcOthersWrite(user_xp, me.g, {uid}, me.snap, me.curve)
                /\ tasks' = [tasks EXCEPT ![t] =
                     [me EXCEPT !.others = @ \ {uid}, !.batch = @ \cup {uid},
                                !.changed = @ + RecalcOthersChanged({uid}, me.snap,
                                                                    me.curve)]]
        /\ UNCHANGED <<guild_settings, role_rewards, ignored_channels,
                       blacklisted_roles, discord, clock, history>>

\* A recalc is under way.
RecalcRunning == \E r \in Tasks : tasks[r].op = "lk_recalc" /\ Running(r)

\* A recalc and the activity that asks for the lock while it runs.
NextRecalcLock ==
    \/ \E t \in Tasks : ~RecalcRunning /\ RecalcLockEnter(t, "g1")
    \/ \E t \in Tasks : RecalcLockAcquire(t)
    \/ \E t \in Tasks : RecalcLockSnapshot(t)
    \/ \E t \in Tasks, uid \in RecalcSubjects : RecalcLockMember(t, uid)
    \/ \E t \in Tasks : RecalcLockOthers(t)
    \/ \E t \in Tasks, u \in DOMAIN member_roles, amount \in RecalcAmounts :
          RecalcRunning /\ LockEnter(t, "lk_apply", "g1", u, amount)
    \/ \E t \in Tasks : LockAcquire(t)
    \/ \E t \in Tasks : ApplySelect(t)
    \/ \E t \in Tasks : ApplyUpdate(t)

\* The tenants of the recalc model; the members of the guild are any of the
\* users 1 and 2.
InitRecalcLock ==
    /\ guild_settings = [g \in Guilds |-> DEFAULT_SETTINGS]
    /\ user_xp \in RecalcStores
    /\ role_rewards = InitRewards
    /\ ignored_channels = {}
    /\ blacklisted_roles = {}
    /\ guild_roles = {RoleA, RoleB, RoleBlack}
    /\ member_roles \in {[u \in m |-> {}] : m \in SUBSET RecalcMembers}
    /\ clock = 0
    /\ tasks = [t \in Tasks |-> IdleTask]
    /\ requested = [k \in {"g1"} \X RecalcSubjects |-> 0]
    /\ xp_start = [k \in {"g1"} \X RecalcSubjects |-> user_xp[k].xp]
    /\ anchor = [k \in {"g1"} \X RecalcSubjects |-> -1]
    /\ overlapped = FALSE
    /\ expected_settings = guild_settings
    /\ last_cmd = NoCmd

SpecRecalcLock == InitRecalcLock /\ [][NextRecalcLock]_vars

\* ------------------------------------------------- the lock under fairness
\* A step of the handler t at or inside a critical section.
LockStep(t) ==
    \/ LockAcquire(t)
    \/ WipeStatement(t)
    \/ ApplySelect(t)
    \/ ApplyUpdate(t)
    \/ RecordStatement(t)
    \/ RecalcLockAcquire(t)
    \/ RecalcLockSnapshot(t)
    \/ \E uid \in RecalcSubjects : RecalcLockMember(t, uid)
    \/ RecalcLockOthers(t)

\* Store operations, applies, recalcs and wipes started at any time.
NextLockLive ==
    \/ \E t \in Tasks, kind \in LockOps, u \in DOMAIN member_roles,
           amount \in RecalcAmounts :
          LockEnter(t, kind, "g1", u, IF kind = "lk_apply" THEN amount ELSE 0)
    \/ \E t \in Tasks : RecalcLockEnter(t, "g1")
    \/ \E t \in Tasks : LockStep(t)

\* One member of the guild, and the rows of three users and of a second guild.
InitLockLive ==
    /\ InitRecalcLock
    /\ DOMAIN member_roles = {1}
    /\ <<"g2", 1>> \in DOMAIN user_xp

\* The event loop runs a handler that can go on for as long as there is one.
SpecLockLive ==
    /\ InitLockLive
    /\ [][NextLockLive]_vars
    /\ WF_vars(\E t \in Tasks : LockStep(t))

\* ================================================================== claims

\* ---- reading the history of a task
\* The levels for which member.add_roles was called.
RequestedLevels(t) ==
    {tasks[t].log[i][1] : i \in {j \in DOMAIN tasks[t].log :
                                    tasks[t].log[j][2] \in {"granted", "failed"}}}

\* The levels of (cur_level, new_level] that have a row in role_rewards.
RewardedLevels(t) ==
    {lv \in (tasks[t].cur_level + 1)..tasks[t].new_level :
        <<tasks[t].g, lv>> \in DOMAIN role_rewards}

\* The apply of task t raised the level and its reward scan is over.
ScanDone(t) ==
    /\ tasks[t].applied
    /\ tasks[t].pc \in {"announce", "done"}
    /\ tasks[t].new_level > tasks[t].cur_level

Ascending(log) ==
    \A i, j \in DOMAIN log : i < j => log[i][1] < log[j][1]

\* C1: when concurrent add_xp_and_check_level_up calls with non-negative gains
\* have all completed, the stored xp is the initial xp plus the sum of the gains.
C1_NoLostUpdate ==
    (\A t \in Tasks : ~Running(t)) =>
        \A k \in UserKeys :
            CurrentXp(user_xp, k[1], k[2]) = xp_start[k] + requested[k]

\* C1 witness: two calls that overlapped have both added XP and every call is over.
C1_Witness ==
    /\ \A t \in Tasks : ~Running(t)
    /\ overlapped
    /\ \E t1, t2 \in Tasks :
          /\ t1 # t2
          /\ tasks[t1].applied /\ tasks[t1].gain > 0
          /\ tasks[t2].applied /\ tasks[t2].gain > 0
          /\ tasks[t1].u = tasks[t2].u

\* on_message handlers of one subject that added XP.
Adders(k) ==
    {t \in Tasks : /\ tasks[t].op = "msg"
                   /\ <<tasks[t].g, tasks[t].u>> = k
                   /\ tasks[t].applied
                   /\ tasks[t].gain > 0}

\* C2: of the on_message events of one subject that are processed concurrently
\* with timestamps less than cooldown_seconds apart, at most one adds XP.
C2_OneApplyPerWindow ==
    overlapped =>
        \A k \in UserKeys : \A t1, t2 \in Adders(k) :
            LET cd == get_settings(guild_settings, k[1]).cooldown_seconds
            IN  t1 # t2 => \/ tasks[t1].now_ts - tasks[t2].now_ts >= cd
                           \/ tasks[t2].now_ts - tasks[t1].now_ts >= cd

\* C3: in a sequential run an event that comes less than cooldown_seconds after
\* the last accepted event of its subject is rejected, adds no XP and leaves
\* last_message_ts alone, and an event that comes later is accepted, whether or
\* not the subject had a row before its first accepted event.
C3_CooldownAnchoredAtAccepted ==
    ~overlapped =>
        \A t \in Tasks :
            (tasks[t].op = "msg" /\ tasks[t].seen_anchor >= 0) =>
                LET cd == get_settings(guild_settings, tasks[t].g).cooldown_seconds
                IN  IF tasks[t].now_ts - tasks[t].seen_anchor < cd
                    THEN tasks[t].verdict = "cooldown" /\ ~tasks[t].applied
                    ELSE tasks[t].verdict = "accepted"

\* C4: a step that creates the row of a subject or changes its xp or level
\* leaves level = level_from_total_xp(current settings, xp).
C4_LevelMatchesCurve ==
    [][\A k \in UserKeys :
          (/\ k \in DOMAIN user_xp'
           /\ \/ k \notin DOMAIN user_xp
              \/ user_xp'[k].xp # user_xp[k].xp
              \/ user_xp'[k].level # user_xp[k].level)
              => LET s == get_settings(guild_settings', k[1])
                 IN  user_xp'[k].level =
                         level_from_total_xp(s.curve_type, s.base_xp, s.curve_a,
                                             s.curve_b, user_xp'[k].xp)]_vars

\* C5: on_message sends a level-up notification only when the level after the
\* apply is greater than the stored level before it and announce_level_up is set.
C5_NotifyOnlyOnLevelUp ==
    \A t \in Tasks :
        (tasks[t].pc = "announce" \/ tasks[t].notify # "none") =>
            tasks[t].new_level > tasks[t].cur_level

\* The settings the curve commands of tenant g1 run under.
CurveOf(t) == get_settings(guild_settings, tasks[t].g)

\* /levelconfig addxp calls whose apply is done.
Applied == {t \in Tasks : tasks[t].op = "addxp" /\ tasks[t].applied}

\* The thresholds of the curve never decrease: a linear curve, an exponential
\* curve, or a quadratic curve with 3 * base_xp + curve_a >= 0.
NonDecreasing(s) ==
    \/ s.curve_type \in {"linear", "exponential"}
    \/ 3 * s.base_xp + s.curve_a >= 0

\* C11: for a curve with non-decreasing thresholds, the level an apply stores
\* for the total it stores is the greatest L with xp_required_for_level(L) <= total.
C11_GreatestLevel ==
    \A t \in Applied :
        LET s == CurveOf(t)
        IN  NonDecreasing(s) =>
              /\ xp_required_for_level(s.curve_type, s.base_xp, s.curve_a, s.curve_b,
                                       tasks[t].new_level) <= tasks[t].new_total
              /\ xp_required_for_level(s.curve_type, s.base_xp, s.curve_a, s.curve_b,
                                       tasks[t].new_level + 1) > tasks[t].new_total

\* C12: for every curve the configuration surface accepts, the thresholds
\* /levelconfig simulate lists never decrease from one level to the next.
C12_ThresholdsNonDecreasing ==
    \A t \in Tasks : tasks[t].op = "simulate" =>
        \A i \in 1..(Len(tasks[t].rows) - 1) :
            tasks[t].rows[i + 1][2] >= tasks[t].rows[i][2]

\* C13: for every curve the configuration surface accepts,
\* level_from_total_xp(xp_required_for_level(L)) = L for the levels listed.
C13_RoundTrip ==
    \A t \in Tasks : tasks[t].op = "simulate" =>
        LET s == CurveOf(t)
        IN  \A i \in DOMAIN tasks[t].rows :
                level_from_total_xp(s.curve_type, s.base_xp, s.curve_a, s.curve_b,
                                    tasks[t].rows[i][2]) = tasks[t].rows[i][1]

\* C14: under fixed curve settings a smaller stored total never gets a greater level.
C14_LevelMonotone ==
    \A t1, t2 \in Applied :
        tasks[t1].new_total <= tasks[t2].new_total
            => tasks[t1].new_level <= tasks[t2].new_level

\* C14 witness: two applies under one curve stored different totals and levels.
C14_Witness ==
    \E t1, t2 \in Applied :
        /\ tasks[t1].new_total < tasks[t2].new_total
        /\ tasks[t1].new_level < tasks[t2].new_level
        /\ tasks[t1].new_level > 0

IsCurve(s, c) ==
    /\ s.curve_type = c[1]
    /\ s.base_xp = c[2]
    /\ s.curve_a = c[3]
    /\ s.curve_b = c[4]

\* C15: quadratic 100/50/0 needs 0, 150, 500 XP for levels 0, 1, 2 and gives
\* levels 0, 1, 1, 2 to the totals 149, 150, 499, 500; linear 10/5 needs 45 XP
\* for level 3.
C15_Scenario ==
    /\ \A t \in Tasks :
          (tasks[t].op = "simulate" /\ IsCurve(CurveOf(t), <<"quadratic", 100, 50, 0>>)) =>
              /\ tasks[t].rows[1] = <<0, 0, 0>>
              /\ tasks[t].rows[2][2] = 150
              /\ tasks[t].rows[3][2] = 500
    /\ \A t \in Tasks :
          (/\ tasks[t].op = "simulate"
           /\ tasks[t].level_value >= 3
           /\ IsCurve(CurveOf(t), <<"linear", 10, 5, 0>>)) =>
              tasks[t].rows[4][2] = 45
    /\ \A t \in Applied :
          IsCurve(CurveOf(t), <<"quadratic", 100, 50, 0>>) =>
              /\ tasks[t].new_total = 149 => tasks[t].new_level = 0
              /\ tasks[t].new_total = 150 => tasks[t].new_level = 1
              /\ tasks[t].new_total = 499 => tasks[t].new_level = 1
              /\ tasks[t].new_total = 500 => tasks[t].new_level = 2

\* C15 witness: under quadratic 100/50/0 simulate has listed level 2 while an
\* apply has stored the total 500.
C15_Witness ==
    /\ IsCurve(get_settings(guild_settings, "g1"), <<"quadratic", 100, 50, 0>>)
    /\ \E t \in Tasks : tasks[t].op = "simulate" /\ Len(tasks[t].rows) >= 3
    /\ \E t \in Applied : tasks[t].new_total = 500

\* The number of rows of tenant g that come before the row of u in the order
\* xp descending, subject id ascending.
RowsBefore(ux, g, u) ==
    Cardinality({k \in DOMAIN ux :
                    /\ k[1] = g
                    /\ \/ ux[k].xp > ux[<<g, u>>].xp
                       \/ ux[k].xp = ux[<<g, u>>].xp /\ k[2] < u})

\* rows is the page of limit rows after offset rows of tenant g in the store ux.
IsPage(ux, g, rows, limit, offset) ==
    /\ \A i \in DOMAIN rows :
          /\ <<g, rows[i][1]>> \in DOMAIN ux
          /\ rows[i][2] = ux[<<g, rows[i][1]>>].xp
          /\ rows[i][3] = ux[<<g, rows[i][1]>>].level
          /\ RowsBefore(ux, g, rows[i][1]) = offset + i - 1
    /\ \A k \in DOMAIN ux :
          (/\ k[1] = g
           /\ RowsBefore(ux, g, k[2]) >= offset
           /\ RowsBefore(ux, g, k[2]) < offset + limit)
              => \E i \in DOMAIN rows : rows[i][1] = k[2]

\* C16: a leaderboard step reads with top_users the rows at the positions
\* offset+1..offset+limit of the order xp descending, subject id ascending of
\* its tenant, and leaves the tables as they are; the pages of one store are
\* therefore disjoint and list every subject once.
C16_TopUsersPage ==
    [][\A t \in Tasks :
          (tasks'[t].op = "leaderboard" /\ tasks'[t] # tasks[t]) =>
              /\ IsPage(user_xp', tasks'[t].g, tasks'[t].rows, PerPage,
                        tasks'[t].page * PerPage)
              /\ UNCHANGED tables]_vars

\* C16 witness: a session shows the second page of twelve subjects, of which
\* two have the same xp.
C16_Witness ==
    \E t \in Tasks :
        /\ tasks[t].op = "leaderboard"
        /\ tasks[t].page = 1
        /\ Len(tasks[t].rows) >= 2
        /\ tasks[t].rows[1][2] = tasks[t].rows[2][2]

\* C17: the rank a profile shows is 1 plus the number of subjects of the
\* tenant with strictly more xp; with A and B at 300 and C at 100 the ranks
\* are 1, 1 and 3.
C17_RankCountsStrictlyGreater ==
    [][\A t \in Tasks :
          (tasks'[t].op = "viewprofile" /\ tasks'[t] # tasks[t]) =>
              LET g == tasks'[t].g
                  u == tasks'[t].u
                  better == {k \in DOMAIN user_xp' :
                                k[1] = g /\ user_xp'[k].xp > tasks'[t].new_total}
              IN  /\ tasks'[t].rank = 1 + Cardinality(better)
                  /\ \A o \in Tasks :
                        (tasks'[o].op = "viewprofile"
                            /\ tasks'[o].new_total = tasks'[t].new_total)
                            => tasks'[o].rank = tasks'[t].rank
                  /\ ({k[2] : k \in {j \in DOMAIN user_xp' : j[1] = g}} = {1, 2, 3}) =>
                        tasks'[t].rank = IF u = 3 THEN 3 ELSE 1]_vars

\* C17 witness: with A and B at 300 and C at 100 the profiles of B and C are
\* shown with the ranks 1 and 3.
C17_Witness ==
    \E t1, t2 \in Tasks :
        /\ tasks[t1].op = "viewprofile" /\ tasks[t1].u = 2 /\ tasks[t1].rank = 1
        /\ tasks[t2].op = "viewprofile" /\ tasks[t2].u = 3 /\ tasks[t2].rank = 3

\* No row of tenant g in the tables gs, ux, ic, br, rr.
Cleared(g, gs, ux, ic, br, rr) ==
    /\ g \notin DOMAIN gs
    /\ \A k \in DOMAIN ux : k[1] # g
    /\ \A p \in ic : p[1] # g
    /\ \A p \in br : p[1] # g
    /\ \A k \in DOMAIN rr : k[1] # g

\* C18: the wipe of a tenant is one step after which none of the five tables
\* has a row of the tenant and get_settings returns the defaults; a step that
\* removes the tenant's rows from one table removes them from all.
C18_WipeClearsFiveTables ==
    [][\A g \in Guilds :
          /\ CfgWipeGuild(g) =>
                /\ Cleared(g, guild_settings', user_xp', ignored_channels',
                           blacklisted_roles', role_rewards')
                /\ get_settings(guild_settings', g) = DEFAULT_SETTINGS
          /\ (g \in DOMAIN guild_settings /\ g \notin DOMAIN guild_settings') =>
                Cleared(g, guild_settings', user_xp', ignored_channels',
                        blacklisted_roles', role_rewards')]_vars

\* C18 witness: the tenant had rows in the five tables, an addxp wrote its
\* progress row, and now no table has a row of the tenant.
C18_Witness ==
    /\ Cleared("g1", guild_settings, user_xp, ignored_channels,
               blacklisted_roles, role_rewards)
    /\ \E t \in Tasks : tasks[t].applied /\ tasks[t].new_total > 0

\* C6 (as stated): a grant is requested for every level of (oldLevel, newLevel]
\* that has a configured reward the subject does not hold, for no other level,
\* and in strictly ascending order.
C6_GrantForEveryRewardedLevel ==
    \A t \in Tasks : ScanDone(t) =>
        /\ \A lv \in RewardedLevels(t) :
              role_rewards[<<tasks[t].g, lv>>] \notin member_roles[tasks[t].u]
                  => lv \in RequestedLevels(t)
        /\ RequestedLevels(t) \subseteq RewardedLevels(t)
        /\ Ascending(tasks[t].log)

\* C6 (amended): a grant is requested for every level of (oldLevel, newLevel]
\* that has a configured reward whose role still exists in the guild and which
\* the subject does not hold, for no other level, and in strictly ascending order.
C6_GrantForEveryResolvableReward ==
    \A t \in Tasks : ScanDone(t) =>
        /\ \A lv \in RewardedLevels(t) :
              (/\ role_rewards[<<tasks[t].g, lv>>] \in guild_roles
               /\ role_rewards[<<tasks[t].g, lv>>] \notin member_roles[tasks[t].u])
                  => lv \in RequestedLevels(t)
        /\ RequestedLevels(t) \subseteq RewardedLevels(t)
        /\ Ascending(tasks[t].log)

\* C6 witness: one apply raised the level by three or more and requested two grants.
C6_Witness ==
    \E t \in Tasks :
        /\ ScanDone(t)
        /\ tasks[t].new_level >= tasks[t].cur_level + 3
        /\ Cardinality(RequestedLevels(t)) >= 2

SoleWriter(t) ==
    \A o \in Tasks \ {t} :
        (tasks[o].g = tasks[t].g /\ tasks[o].u = tasks[t].u) => ~tasks[o].applied

\* C8: the end of a role grant or of the notification, failed or not, leaves
\* user_xp as it is, and a finished pipeline leaves the (xp, level) its apply
\* computed when no other call wrote the subject.
C8_FailureKeepsCommittedXp ==
    /\ [](\A t \in Tasks :
            (tasks[t].pc = "done" /\ tasks[t].applied /\ SoleWriter(t)) =>
                /\ user_xp[<<tasks[t].g, tasks[t].u>>].xp = tasks[t].new_total
                /\ user_xp[<<tasks[t].g, tasks[t].u>>].level = tasks[t].new_level)
    /\ [][\A t \in Tasks :
            (tasks[t].pc \in {"ax_grant", "announce"} /\ tasks'[t] # tasks[t])
                => user_xp' = user_xp]_vars

\* C8 witness: a message's pipeline is over, one of its grants failed and its
\* notification failed.
C8_Witness ==
    \E t \in Tasks :
        /\ tasks[t].op = "msg"
        /\ tasks[t].pc = "done"
        /\ tasks[t].applied
        /\ tasks[t].notify = "failed"
        /\ \E i \in DOMAIN tasks[t].log : tasks[t].log[i][2] = "failed"
        /\ user_xp[<<tasks[t].g, tasks[t].u>>].xp = tasks[t].new_total

\* C9 (as stated): after update_settings(tenant, fields) returns, get_settings
\* returns the new value of every updated field and the previous (or default)
\* value of every other field, also for a tenant that has no settings row.
C9_GetAfterUpdate ==
    \A g \in Guilds : get_settings(guild_settings, g) = expected_settings[g]

\* C10 (as stated): a settings command with invalid input (setrange with
\* xp_max < xp_min, setcurve with an unknown curve type) leaves every field of
\* the tenant's settings unchanged.
C10_InvalidLeavesSettings ==
    last_cmd.invalid =>
        get_settings(guild_settings, last_cmd.g) = last_cmd.before

\* C10 (amended): setrange with xp_max < xp_min leaves every field unchanged;
\* setcurve with an unknown curve type is not rejected: it hands curve_type
\* quadratic and the given base_xp, curve_a and curve_b to update_settings,
\* which stores them in the tenant's settings row and leaves the other fields
\* unchanged, and which changes nothing when the tenant has no row.
C10_SetRangeRejectedSetCurveCoerced ==
    /\ (last_cmd.kind = "setrange" /\ last_cmd.invalid) =>
           get_settings(guild_settings, last_cmd.g) = last_cmd.before
    /\ (last_cmd.kind = "setcurve" /\ last_cmd.invalid
            /\ last_cmd.g \notin DOMAIN guild_settings) =>
           get_settings(guild_settings, last_cmd.g) = last_cmd.before
    /\ (last_cmd.kind = "setcurve" /\ last_cmd.invalid
            /\ last_cmd.g \in DOMAIN guild_settings) =>
           guild_settings[last_cmd.g] =
               [last_cmd.before EXCEPT !.curve_type = "quadratic",
                                       !.base_xp = last_cmd.fields[2],
                                       !.curve_a = last_cmd.fields[3],
                                       !.curve_b = last_cmd.fields[4]]

\* C10 witness: an invalid setrange has just run on a tenant that has a
\* settings row with another range.
C10_Witness ==
    /\ last_cmd.kind = "setrange"
    /\ last_cmd.invalid
    /\ last_cmd.g \in DOMAIN guild_settings
    /\ last_cmd.before.xp_min # last_cmd.fields[1]

\* ---- recalc
\* The level the curve of the settings s gives for total.
LevelUnder(s, total) ==
    level_from_total_xp(s.curve_type, s.base_xp, s.curve_a, s.curve_b, total)

\* Task t is a recalc that sends its reply in this step.
RecalcCompletes(t) ==
    /\ tasks[t].op = "recalc"
    /\ tasks[t].pc = "rc_reply"
    /\ tasks'[t].pc = "done"

\* C19: when a recalc completes and nothing else happened on the tenant while it
\* ran, the tenant has the rows it had when the recalc started, every row has
\* the level level_from_total_xp gives for its xp under the current settings,
\* and the xp and last_message_ts of every row are what they were.
C19_RecalcLevelsMatchCurve ==
    [][\A t \in Tasks : (RecalcCompletes(t) /\ ~overlapped') =>
          /\ {k \in DOMAIN user_xp' : k[1] = tasks[t].g} = DOMAIN tasks[t].before
          /\ \A k \in DOMAIN tasks[t].before :
                /\ user_xp'[k].level =
                      LevelUnder(get_settings(guild_settings', k[1]), user_xp'[k].xp)
                /\ user_xp'[k].xp = tasks[t].before[k].xp
                /\ user_xp'[k].last_message_ts = tasks[t].before[k].last_message_ts]_vars

\* C19 witness: a recalc that ran alone is over; it raised the level of member
\* 1, lowered the level of member 2 and changed the level of the former member 3.
C19_Witness ==
    \E t \in Tasks :
        /\ tasks[t].op = "recalc" /\ tasks[t].pc = "done" /\ ~overlapped
        /\ \A o \in Tasks \ {t} : tasks[o].pc = "idle"
        /\ user_xp[<<"g1", 1>>].level > tasks[t].before[<<"g1", 1>>].level
        /\ user_xp[<<"g1", 2>>].level < tasks[t].before[<<"g1", 2>>].level
        /\ user_xp[<<"g1", 3>>].level # tasks[t].before[<<"g1", 3>>].level
        /\ 3 \notin DOMAIN member_roles

\* The levels for which a reward scan called member.add_roles.
LogRequests(log) ==
    {log[i][1] : i \in {j \in DOMAIN log : log[j][2] \in {"granted", "failed"}}}

\* The reward scans of recalc t: those that are over and the one under way.
RecalcScans(t) ==
    tasks[t].scans \o
        (IF tasks[t].pc \in {"ax_rewards", "ax_grant"}
         THEN <<[u |-> tasks[t].u, member |-> tasks[t].u \in tasks[t].members,
                 old |-> tasks[t].cur_level, new |-> tasks[t].new_level,
                 log |-> tasks[t].log]>>
         ELSE <<>>)

\* Task t is a recalc that writes the level of a member in this step.
RecalcApplies(t) ==
    /\ tasks[t].op = "recalc"
    /\ tasks[t].pc = "ax_apply"
    /\ tasks'[t].pc # "ax_apply"

\* Task t is a recalc that runs its pass over the rows of non-members in this step.
RecalcSecondPass(t) ==
    /\ tasks[t].op = "recalc"
    /\ tasks[t].pc = "rc_member"
    /\ tasks'[t].pc = "rc_reply"

\* C20: a recalc calls member.add_roles only for a member whose recomputed level
\* is greater than its stored level, and only for levels of (oldLevel,
\* newLevel]; a lower recomputed level is stored; no step takes a role from a
\* member; the pass over the non-members changes nothing but their levels.
C20_RecalcGrantsOnlyOnRise ==
    /\ [](\A t \in Tasks : tasks[t].op = "recalc" =>
            \A i \in DOMAIN RecalcScans(t) :
                LET sc == RecalcScans(t)[i]
                IN  /\ sc.member
                    /\ LogRequests(sc.log) # {} => sc.new > sc.old
                    /\ LogRequests(sc.log) \subseteq (sc.old + 1)..sc.new)
    /\ [][/\ \A u \in DOMAIN member_roles \cap DOMAIN member_roles' :
                member_roles[u] \subseteq member_roles'[u]
          /\ \A t \in Tasks : RecalcApplies(t) =>
                LET k == <<tasks[t].g, tasks[t].u>>
                IN  /\ user_xp'[k].level = LevelUnder(tasks[t].curve, user_xp[k].xp)
                    /\ user_xp'[k].xp = user_xp[k].xp
                    /\ user_xp'[k].level <= user_xp[k].level =>
                          member_roles' = member_roles /\ tasks'[t].pc = "rc_member"
          /\ \A t \in Tasks : RecalcSecondPass(t) =>
                /\ member_roles' = member_roles
                /\ DOMAIN user_xp' = DOMAIN user_xp
                /\ \A k \in DOMAIN user_xp :
                      /\ user_xp'[k].xp = user_xp[k].xp
                      /\ user_xp'[k].last_message_ts = user_xp[k].last_message_ts
                      /\ user_xp'[k] # user_xp[k] => k[2] \in tasks[t].others]_vars

\* C20 witness: a recalc is over; member 1 rose and was given a role, member 2
\* fell from level 3 to level 1 and still holds the role of level 3, and the
\* former member 3 has another level than before and no scan.
C20_Witness ==
    \E t \in Tasks :
        /\ tasks[t].op = "recalc" /\ tasks[t].pc = "done"
        /\ \E i \in DOMAIN tasks[t].scans :
              /\ tasks[t].scans[i].u = 1
              /\ LogRequests(tasks[t].scans[i].log) # {}
        /\ \E i \in DOMAIN tasks[t].scans :
              /\ tasks[t].scans[i].u = 2
              /\ tasks[t].scans[i].old = 3 /\ tasks[t].scans[i].new = 1
        /\ 2 \in DOMAIN member_roles /\ RoleB \in member_roles[2]
        /\ user_xp[<<"g1", 2>>].level = 1
        /\ user_xp[<<"g1", 3>>].level # tasks[t].before[<<"g1", 3>>].level
        /\ \A i \in DOMAIN tasks[t].scans : tasks[t].scans[i].u # 3

\* C21 (as stated): once a recalc and the /levelconfig addxp calls that ran
\* with it are over, every subject that was given XP has its stored XP plus
\* every amount given, and the level level_from_total_xp gives for that total
\* under the current settings.
C21_RecalcConsistentWithLiveUpdates ==
    ((\E t \in Tasks : tasks[t].op = "recalc" /\ tasks[t].pc = "done")
        /\ \A t \in Tasks : ~Running(t)) =>
      \A k \in DOMAIN user_xp :
        (k[1] = "g1" /\ requested[k] > 0) =>
            /\ user_xp[k].xp = xp_start[k] + requested[k]
            /\ user_xp[k].level =
                  LevelUnder(get_settings(guild_settings, k[1]), user_xp[k].xp)

\* ---- the lock
\* Task t runs a statement on the tables in this step.
StatementStep(t) == tasks[t].pc = "lk_stmt" /\ tasks'[t] # tasks[t]

\* C22: at most one handler holds _db_lock; every step that changes a table is
\* a statement of the handler that holds it; and while a handler is between
\* two statements of its critical section no other handler runs a statement,
\* so none reads a write that is partly applied.
C22_OneHolderNoPartialWrite ==
    /\ [](Cardinality({t \in Tasks : tasks[t].holds}) <= 1)
    /\ [][/\ tables' # tables =>
                \E t \in Tasks : tasks[t].holds /\ StatementStep(t)
          /\ \A t \in Tasks : StatementStep(t) =>
                /\ tasks[t].holds
                /\ \A o \in Tasks \ {t} : tasks[o].pc # "lk_stmt"]_vars

\* C22 witness: a wipe has deleted the rows of user_xp, ignored_channels and
\* blacklisted_roles and not yet those of role_rewards and guild_settings,
\* while another handler waits for the lock.
C22_Witness ==
    \E t \in Tasks, o \in Tasks :
        /\ tasks[t].op = "lk_wipe" /\ tasks[t].holds /\ tasks[t].idx = 4
        /\ \A k \in DOMAIN user_xp : k[1] # "g1"
        /\ \E k \in DOMAIN role_rewards : k[1] = "g1"
        /\ "g1" \in DOMAIN guild_settings
        /\ tasks[o].pc = "lk_acquire" /\ tasks[o].op \in {"lk_apply", "lk_record"}

\* ---- leaderboard pages
\* The number of rows of tenant g.
TenantRows(ux, g) == Cardinality({k \in DOMAIN ux : k[1] = g})

\* C23: the page of a leaderboard session is never negative; Previous leaves
\* page 0 at 0 and otherwise goes back one page, Next goes one page on from
\* any page; a page that starts beyond the last row shows the empty-state text.
C23_PageIndexAndEmptyPage ==
    /\ [](\A t \in Tasks : tasks[t].op = "leaderboard" =>
            /\ tasks[t].page >= 0
            /\ tasks[t].page * PerPage >= TenantRows(user_xp, tasks[t].g) =>
                  build_leaderboard_embed(tasks[t].rows, tasks[t].page * PerPage)
                      = <<"No data to display yet. Start chatting to earn XP!">>
            /\ tasks[t].page * PerPage < TenantRows(user_xp, tasks[t].g) =>
                  /\ tasks[t].rows # <<>>
                  /\ Len(build_leaderboard_embed(tasks[t].rows, tasks[t].page * PerPage))
                        = Len(tasks[t].rows))
    /\ [][\A t \in Tasks :
            /\ Previous(t) =>
                  tasks'[t].page = IF tasks[t].page = 0 THEN 0 ELSE tasks[t].page - 1
            /\ NextPage(t) => tasks'[t].page = tasks[t].page + 1]_vars

\* C23 witness: a session over three subjects was taken to the third page,
\* which is empty.
C23_Witness ==
    \E t \in Tasks :
        /\ tasks[t].op = "leaderboard"
        /\ tasks[t].page = 2
        /\ TenantRows(user_xp, tasks[t].g) = 3
        /\ tasks[t].rows = <<>>

\* ---- on_message: timestamp, filters, zero gain
\* Task t is an on_message handler that returns in this step.
MsgReturns(t) ==
    /\ tasks[t].op = "msg"
    /\ Running(t)
    /\ tasks'[t].pc = "done"

\* C24 (as stated): when the handler of an event that passed the filters and
\* the cooldown check at now_ts returns, and no other handler ran with it, the
\* subject has a row whose last_message_ts is now_ts.
C24_TimestampCommitted ==
    [][\A t \in Tasks :
          (MsgReturns(t) /\ tasks[t].verdict = "accepted" /\ ~overlapped') =>
              /\ <<tasks[t].g, tasks[t].u>> \in DOMAIN user_xp'
              /\ user_xp'[<<tasks[t].g, tasks[t].u>>].last_message_ts
                    = tasks[t].now_ts]_vars

\* The event of the running handler t is one the filter chain rejects.
Rejected(t) ==
    LET ev == tasks[t].ev
        g == tasks[t].g
    IN  \/ ~ev.has_guild
        \/ ev.bot /\ get_settings(guild_settings, g).ignore_bots = 1
        \/ <<g, ev.channel>> \in ignored_channels
        \/ \E r \in member_roles[tasks[t].u] : <<g, r>> \in blacklisted_roles
        \/ ev.len < get_settings(guild_settings, g).min_chars

\* C25: the handler of a rejected event never gets past the filters, ends
\* filtered, and none of its steps changes user_xp or a member's roles; a
\* filtered handler has applied nothing, requested no grant and sent nothing.
C25_RejectedEventChangesNothing ==
    /\ [](\A t \in Tasks : tasks[t].op = "msg" =>
            /\ (Running(t) /\ Rejected(t)) =>
                  tasks[t].pc \in {"bot_settings", "settings", "ignored", "blacklist"}
            /\ tasks[t].verdict = "filtered" =>
                  /\ tasks[t].pc = "done"
                  /\ ~tasks[t].applied
                  /\ tasks[t].log = <<>> /\ tasks[t].awarded = <<>>
                  /\ tasks[t].notify = "none")
    /\ [][\A t \in Tasks :
            (/\ tasks'[t] # tasks[t]
             /\ tasks'[t].op = "msg"
             /\ \/ tasks'[t].verdict = "filtered"
                \/ Running(t) /\ Rejected(t)) =>
                /\ tasks'[t].verdict = "filtered" \/ tasks'[t].verdict = "none"
                /\ UNCHANGED <<user_xp, member_roles, requested>>]_vars

\* C25 witness: the message of an author who holds the blacklisted role was
\* filtered, and so was another message; the author's row is as it was.
C25_Witness ==
    /\ \A t \in Tasks : tasks[t].op = "msg" /\ tasks[t].verdict = "filtered"
    /\ RoleBlack \in member_roles[1]
    /\ <<"g1", 1>> \in DOMAIN user_xp
    /\ user_xp[<<"g1", 1>>] = [xp |-> 2, level |-> 1, last_message_ts |-> 0]

\* Task t is an accepted on_message handler with gain 0 at its timestamp commit.
ZeroGainStep(t) ==
    /\ tasks[t].op = "msg"
    /\ tasks[t].pc = "set_ts"
    /\ tasks[t].gain <= 0
    /\ tasks'[t] # tasks[t]

\* C26: the handler of an accepted event with gain 0 returns after the
\* timestamp commit: no row appears, no xp and no level changes, no other row
\* changes, no role is granted and nothing is sent.
C26_ZeroGainOnlyTimestamp ==
    /\ [](\A t \in Tasks :
            (tasks[t].op = "msg" /\ tasks[t].verdict = "accepted" /\ tasks[t].gain <= 0) =>
                /\ tasks[t].pc \in {"set_ts", "done"}
                /\ ~tasks[t].applied
                /\ tasks[t].log = <<>> /\ tasks[t].awarded = <<>>
                /\ tasks[t].notify = "none")
    /\ [][\A t \in Tasks : ZeroGainStep(t) =>
            /\ tasks'[t].pc = "done"
            /\ DOMAIN user_xp' = DOMAIN user_xp
            /\ \A k \in DOMAIN user_xp :
                  /\ user_xp'[k].xp = user_xp[k].xp
                  /\ user_xp'[k].level = user_xp[k].level
                  /\ k # <<tasks[t].g, tasks[t].u>> => user_xp'[k] = user_xp[k]
            /\ UNCHANGED <<member_roles, requested>>]_vars

\* C26 witness: an accepted message with gain 0 is over; the author's row has
\* the new timestamp and the xp and level it had.
C26_Witness ==
    \E t \in Tasks :
        /\ tasks[t].op = "msg" /\ tasks[t].verdict = "accepted"
        /\ tasks[t].gain = 0 /\ tasks[t].pc = "done"
        /\ <<"g1", 1>> \in DOMAIN user_xp
        /\ user_xp[<<"g1", 1>>] = [xp |-> 2, level |-> 1, last_message_ts |-> tasks[t].now_ts]
        /\ tasks[t].now_ts > 0

\* ---- stored xp and level
\* Task t runs the critical section of add_xp_and_check_level_up in this step.
ApplyStep(t) == tasks[t].pc = "ax_apply" /\ tasks'[t] # tasks[t]

\* C27: every stored xp and every stored level is at least 0, and an apply of
\* the gain g to the stored xp x (0 without a row) stores x + g, or 0 when that
\* is negative.
C27_StoredNonNegative ==
    /\ [](\A k \in DOMAIN user_xp : user_xp[k].xp >= 0 /\ user_xp[k].level >= 0)
    /\ [][\A t \in Tasks : ApplyStep(t) =>
            LET k == <<tasks[t].g, tasks[t].u>>
                x == IF k \in DOMAIN user_xp THEN user_xp[k].xp ELSE 0
                g == tasks[t].gain
            IN  /\ k \in DOMAIN user_xp'
                /\ user_xp'[k].xp = IF x + g < 0 THEN 0 ELSE x + g
                /\ tasks'[t].new_total = user_xp'[k].xp]_vars

\* C27 witness: an admin took 2000 XP from a member who had less, which left
\* the member at 0 XP and level 0, after a recalc or a setlevel of that member.
C27_Witness ==
    \E t \in Tasks, o \in Tasks :
        /\ tasks[t].op = "addxp" /\ tasks[t].applied /\ tasks[t].gain = -2000
        /\ tasks[t].cur_level > 0
        /\ user_xp[<<"g1", tasks[t].u>>].xp = 0
        /\ user_xp[<<"g1", tasks[t].u>>].level = 0
        /\ tasks[o].op = "recalc" /\ tasks[o].pc = "done"

\* ---- the search bound and the gain
\* C28 (as stated): for the total an apply stores, the upper bound the doubling
\* search ends with is at most 10000, and so is the level stored.
C28_LevelAtMostCap ==
    \A t \in Applied :
        LET s == CurveOf(t)
        IN  /\ Ramp(s.curve_type, s.base_xp, s.curve_a, s.curve_b,
                    Max(0, tasks[t].new_total), 1) <= HiCap
            /\ tasks[t].new_level <= HiCap

\* The non-negative rational n/d rounded to the nearest integer, a tie upwards.
RoundHalfUp(n, d) == (2 * n + d) \div (2 * d)

\* The gain of the event ev under the settings s with half-up rounding.
HalfUpGain(s, ev, base) ==
    LET raw == base + s.attachments_bonus * ev.att + s.mentions_bonus * ev.men
        threaded == IF ev.channel = ThreadChannel
                    THEN RoundHalfUp(raw * s.threads_multiplier[1],
                                     s.threads_multiplier[2])
                    ELSE raw
    IN  Max(0, RoundHalfUp(threaded * s.multiplier[1], s.multiplier[2]))

\* C29 (as stated): the gain of an accepted event is the half-up gain for some
\* base in xp_min..xp_max.
C29_GainRoundsHalfUp ==
    \A t \in Tasks :
        (tasks[t].op = "msg" /\ tasks[t].pc = "set_ts") =>
            \E base \in tasks[t].settings.xp_min..tasks[t].settings.xp_max :
                tasks[t].gain = HalfUpGain(tasks[t].settings, tasks[t].ev, base)

AppliesOn(k) ==
    {t \in Tasks : tasks[t].op = "addxp" /\ tasks[t].applied
                   /\ <<tasks[t].g, tasks[t].u>> = k}

\* The levels of the interval (cur_level, new_level] of task t.
Scanned(t) == (tasks[t].cur_level + 1)..tasks[t].new_level

\* The levels of the reward rows task t has come to in its loop.
LogLevels(t) == {tasks[t].log[i][1] : i \in DOMAIN tasks[t].log}

\* The level the row k had at the start; the rows of Init carry the level of
\* their xp.
LevelStart(k) ==
    level_from_total_xp(TunedSettings.curve_type, TunedSettings.base_xp,
                        TunedSettings.curve_a, TunedSettings.curve_b, xp_start[k])

\* C31: for the committed applies on one row with non-negative gains under a
\* fixed curve, the intervals (cur_level, new_level] are pairwise disjoint,
\* their union is (level at the start, stored level], every reward row an apply
\* comes to lies in its own interval, and no level is in the loops of two applies.
C31_LevelsScannedOnce ==
    \A k \in UserKeys :
        (\A t \in AppliesOn(k) : tasks[t].gain >= 0) =>
            /\ \A t \in AppliesOn(k), o \in AppliesOn(k) :
                  t # o => /\ Scanned(t) \cap Scanned(o) = {}
                           /\ LogLevels(t) \cap LogLevels(o) = {}
            /\ \A t \in AppliesOn(k) : LogLevels(t) \subseteq Scanned(t)
            /\ UNION {Scanned(t) : t \in AppliesOn(k)}
                  = (LevelStart(k) + 1)..CurrentLevel(user_xp, k[1], k[2])

\* C31 witness: an apply raised the level and its grant for a level failed; a
\* later apply on the same row raised the level again and came to a reward row.
C31_Witness ==
    \E t \in Tasks, o \in Tasks :
        /\ t # o
        /\ t \in AppliesOn(<<"g1", 1>>) /\ o \in AppliesOn(<<"g1", 1>>)
        /\ tasks[t].pc = "done" /\ tasks[o].pc = "done"
        /\ \E i \in DOMAIN tasks[t].log : tasks[t].log[i][2] = "failed"
        /\ tasks[o].cur_level = tasks[t].new_level
        /\ tasks[o].log # <<>>

\* ---- the leaderboard number and the rank
\* The rows of tenant g with the xp of subject u and a smaller id.
TiedBefore(ux, g, u) ==
    {k \in DOMAIN ux : k[1] = g /\ ux[k].xp = ux[<<g, u>>].xp /\ k[2] < u}

\* No two rows of tenant g have the same xp.
NoTies(ux, g) ==
    \A k, j \in DOMAIN ux : (k[1] = g /\ j[1] = g /\ k # j) => ux[k].xp # ux[j].xp

\* The page task t shows is the page of the rows now stored.
PageCurrent(t) ==
    tasks[t].rows = top_users(user_xp, tasks[t].g, PerPage, tasks[t].page * PerPage)

\* C34: the number a leaderboard page prints for a subject is at least
\* user_rank of the subject, and equal to it exactly when no subject with the
\* same xp has a smaller id; without equal xp the two agree for every row.
\* The page and the rank are read from the same rows.
C34_BoardNumberAtLeastRank ==
    \A t \in Tasks : (tasks[t].op = "leaderboard" /\ PageCurrent(t)) =>
        LET g == tasks[t].g
            lines == build_leaderboard_embed(tasks[t].rows, tasks[t].page * PerPage)
        IN  \A i \in DOMAIN tasks[t].rows :
                LET u == tasks[t].rows[i][1]
                    printed == lines[i][1]
                IN  /\ printed >= user_rank(user_xp, g, u)
                    /\ (printed = user_rank(user_xp, g, u))
                           <=> (TiedBefore(user_xp, g, u) = {})
                    /\ NoTies(user_xp, g) => printed = user_rank(user_xp, g, u)

\* C34 witness: with A and B at 300 the page prints 2 for B, whose rank is 1,
\* and 3 for C, whose rank is 3.
C34_Witness ==
    \E t \in Tasks :
        /\ tasks[t].op = "leaderboard" /\ Len(tasks[t].rows) = 3
        /\ build_leaderboard_embed(tasks[t].rows, 0)[2][1] = 2
        /\ tasks[t].rows[2][1] = 2
        /\ user_rank(user_xp, "g1", 2) = 1
        /\ tasks[t].rows[3][1] = 3
        /\ user_rank(user_xp, "g1", 3) = 3

\* ---- tenants
\* The rows of tenant g in the five tables.
RowsOfTenant(g, gs, ux, ic, br, rr) ==
    [ settings |-> IF g \in DOMAIN gs THEN <<gs[g]>> ELSE <<>>,
      progress |-> [k \in {x \in DOMAIN ux : x[1] = g} |-> ux[k]],
      ignored |-> {p \in ic : p[1] = g},
      blacklisted |-> {p \in br : p[1] = g},
      rewards |-> [k \in {x \in DOMAIN rr : x[1] = g} |-> rr[k]] ]

\* C32: no step of an operation on tenant g1 changes a row of tenant g2 in the
\* five tables; a leaderboard page of g2 holds the rows of g2 and no other, and
\* a profile of g2 shows the xp of the g2 row and a rank counted over g2 only.
C32_TenantIsolation ==
    /\ [][RowsOfTenant("g2", guild_settings', user_xp', ignored_channels',
                       blacklisted_roles', role_rewards')
            = RowsOfTenant("g2", guild_settings, user_xp, ignored_channels,
                           blacklisted_roles, role_rewards)]_vars
    /\ [](\A t \in Tasks :
            /\ (tasks[t].op = "leaderboard" /\ tasks[t].g = "g2") =>
                  /\ Len(tasks[t].rows) = TenantRows(user_xp, "g2")
                  /\ \A i \in DOMAIN tasks[t].rows :
                        LET u == tasks[t].rows[i][1]
                        IN  /\ <<"g2", u>> \in DOMAIN user_xp
                            /\ tasks[t].rows[i][2] = user_xp[<<"g2", u>>].xp
            /\ (tasks[t].op = "viewprofile" /\ tasks[t].g = "g2") =>
                  /\ tasks[t].new_total = user_xp[<<"g2", tasks[t].u>>].xp
                  /\ tasks[t].rank =
                        1 + Cardinality({k \in DOMAIN user_xp :
                                k[1] = "g2" /\ user_xp[k].xp > tasks[t].new_total}))

\* C32 witness: g1 has been given XP and a second ignored channel, its member
\* has 1400 XP, and the profile of user 7 in g2 shows rank 2; later states of
\* the same model have g1 wiped.
C32_Witness ==
    \E t \in Tasks :
        /\ tasks[t].op = "viewprofile" /\ tasks[t].g = "g2" /\ tasks[t].u = 7
        /\ tasks[t].rank = 2
        /\ <<"g1", 1>> \in DOMAIN user_xp /\ user_xp[<<"g1", 1>>].xp = 1400
        /\ <<"g1", TextChannel>> \in ignored_channels
        /\ <<"g1", 5>> \in DOMAIN role_rewards

\* ---- the stored timestamp
\* C33: with clock readings that do not decrease, no step lowers the stored
\* last_message_ts of a row.
C33_TimestampNeverDecreases ==
    [][\A k \in DOMAIN user_xp \cap DOMAIN user_xp' :
          user_xp'[k].last_message_ts >= user_xp[k].last_message_ts]_vars

\* C33 witness: a handler that read the clock at 2 and wrote 2 waits for
\* Discord; a later event of the same member read 4 and wrote it over the 2.
C33_Witness ==
    \E t \in Tasks, o \in Tasks :
        /\ tasks[t].op = "msg" /\ tasks[t].pc \in {"ax_grant", "announce"}
        /\ tasks[t].now_ts = 2 /\ tasks[t].verdict = "accepted"
        /\ tasks[o].op = "msg" /\ tasks[o].u = tasks[t].u
        /\ tasks[o].now_ts = 4 /\ tasks[o].verdict = "accepted"
        /\ tasks[o].pc \in {"ax_settings", "ax_apply", "ax_rewards", "ax_grant",
                            "announce", "done"}
        /\ user_xp[<<"g1", tasks[t].u>>].last_message_ts = 4

\* ---- recalc run twice
\* A recalc has replied.
RecalcDone == \E t \in Tasks : tasks[t].op = "recalc" /\ tasks[t].pc = "done"

\* C35: once a recalc has replied and nothing else changes settings,
\* membership or progress, no step of a later recalc changes a stored row or a
\* member's roles, none of its reward scans calls add_roles, and it ends with
\* changed = 0 and awarded_total = 0.
C35_SecondRecalcChangesNothing ==
    /\ [][RecalcDone => (tables' = tables /\ member_roles' = member_roles)]_vars
    /\ [](\A t \in Tasks, o \in Tasks :
            (/\ tasks[t].op = "recalc" /\ tasks[t].pc = "done"
             /\ tasks[o].op = "recalc" /\ tasks[o].pc # "done") =>
                /\ tasks[o].changed = 0
                /\ tasks[o].awarded_total = 0
                /\ \A i \in DOMAIN RecalcScans(o) :
                      LogRequests(RecalcScans(o)[i].log) = {})

\* C35 witness: the first recalc changed levels and a grant of it failed; the
\* second recalc has gone through every row and is about to reply.
C35_Witness ==
    \E t \in Tasks, o \in Tasks :
        /\ tasks[t].op = "recalc" /\ tasks[t].pc = "done"
        /\ tasks[t].changed > 0
        /\ \E i \in DOMAIN tasks[t].scans :
              \E j \in DOMAIN tasks[t].scans[i].log :
                  tasks[t].scans[i].log[j][2] = "failed"
        /\ tasks[o].op = "recalc" /\ tasks[o].pc = "rc_reply"
        /\ Len(tasks[o].scans) > 0

\* ---- the wipe and work under way
\* Recalc t started before the wipe and the wipe is over: t saw the row of
\* user 3, which is gone and which nothing in this model creates again.
StartedBeforeWipe(t) ==
    /\ tasks[t].op = "recalc"
    /\ <<"g1", 3>> \in DOMAIN tasks[t].before
    /\ <<"g1", 3>> \notin DOMAIN user_xp

\* C36 (as stated), for a recalc: after the wipe no step of an operation that
\* started before the wipe creates a progress row or a settings row of the
\* tenant.
C36_NoRowFromWorkBeforeWipe ==
    [][\A t \in Tasks :
          (StartedBeforeWipe(t) /\ tasks'[t] # tasks[t]) =>
              /\ DOMAIN user_xp' \subseteq DOMAIN user_xp
              /\ DOMAIN guild_settings' \subseteq DOMAIN guild_settings]_vars

\* ---- the stored range
\* C37: every stored settings row has xp_min <= xp_max and base_xp >= 1, so
\* random.randint(xp_min, xp_max) has a value to draw.
C37_StoredRangeNonEmpty ==
    \A g \in DOMAIN guild_settings :
        /\ guild_settings[g].xp_min <= guild_settings[g].xp_max
        /\ guild_settings[g].base_xp >= 1
        /\ RandDraws(guild_settings[g].xp_min, guild_settings[g].xp_max) # {}

\* C37 witness: the tenant has the range 0-1 from a setrange and base_xp 1
\* from a setcurve, and the last command was a setrange of 5-1, rejected.
C37_Witness ==
    /\ "g1" \in DOMAIN guild_settings
    /\ guild_settings["g1"].xp_min = 0 /\ guild_settings["g1"].xp_max = 1
    /\ guild_settings["g1"].base_xp = 1
    /\ last_cmd.kind = "setrange" /\ last_cmd.invalid
    /\ last_cmd.fields = <<5, 1>>

\* ---- no deadlock
\* C38: a handler that asks for _db_lock does not hold it, a handler that is
\* over does not hold it, and every store operation, apply, recalc and wipe
\* that has started comes to its end: no handler stays under way for ever.
C38_EveryOperationCompletes ==
    /\ [](\A t \in Tasks :
            /\ tasks[t].pc \in {"lk_acquire", "rl_acquire"} => ~tasks[t].holds
            /\ tasks[t].pc = "done" => ~tasks[t].holds)
    /\ \A t \in Tasks : []<>(~Running(t))

\* C38 witness: a recalc that has processed a member row holds the lock for
\* its second pass while a wipe waits for the lock.
C38_Witness ==
    \E r \in Tasks, o \in Tasks :
        /\ tasks[r].op = "lk_recalc" /\ tasks[r].holds /\ tasks[r].idx = 3
        /\ tasks[r].pc = "rl_stmt" /\ tasks[r].batch # {}
        /\ tasks[o].op = "lk_wipe" /\ tasks[o].pc = "lk_acquire"

====
